---- MODULE Spec2Model ----
(***************************************************************************)
(* NeutralPress Cloud: scheduling + delivery pipeline.                     *)
(*                                                                         *)
(* Time is counted in seconds since the epoch of the model (a UTC          *)
(* midnight).  Nullable / non-numeric JavaScript values that flow through  *)
(* numeric positions are encoded as negative integers (NULL, UNDEFINED,    *)
(* NAN) so that they can be compared with numbers.                         *)
(***************************************************************************)
EXTENDS Integers, Sequences, FiniteSets, TLC

\* ------------------------------------------------------------------ bounds
NumCallers == 2            \* concurrent callers of reserveDispatchSlot
MaxCalls == 4              \* reserveDispatchSlot calls in one behaviour
MaxClockSteps == 2         \* how often the wall clock advances
ClockStep == 30            \* seconds per clock advance
MaxDispatchPerMinute == 2  \* env.MAX_DISPATCH_PER_MINUTE is at most this
MaxSlotLookaheadMinutes == 1 \* MAX_SLOT_LOOKAHEAD_MINUTES (constants.ts)
NumSites == 1              \* distinct siteIds that register
MaxMinuteOfDay == 1        \* randomMinuteOfDay() draws from 0..MaxMinuteOfDay
MaxRetryAttemptsBound == 2 \* env.MAX_RETRY_ATTEMPTS is drawn from 1..bound
MaxScheduleScanPerTick == 1 \* MAX_SCHEDULE_SCAN_PER_TICK (constants.ts)
ScheduleBatchLimit == 1    \* SCHEDULE_BATCH_LIMIT (constants.ts)
MaxTicks == 1              \* cron invocations in one behaviour
MaxSendFailures == 2       \* DISPATCH_QUEUE.send() rejections
MaxBrokerRetries == 1      \* broker max_retries before dead-lettering
MaxDuplicates == 1         \* at-least-once duplicate deliveries
MaxInvalid == 1            \* malformed messages put on a queue
MaxSyncers == 2            \* sync requests under way at the same time

\* ------------------------------------------------------- program constants
MinuteSeconds == 60
HourSeconds == 3600
DaySeconds == 86400
MinutesPerDay == 1440
MillisPerSecond == 1000
NULL == -1
UNDEFINED == -2
NAN == -3

IsNumber(x) == x >= 0

Times == {k * ClockStep : k \in 0..MaxClockSteps}

\* ---------------------------------------------------------------- state
VARIABLES
  clock,                  \* wall clock (Date.now()), seconds
  dispatch_minute_load,   \* table: minute_start -> row
  callers,                \* reserveDispatchSlot invocations in progress
  reservedOk,             \* minute_start -> number of successful returns
  calls,                  \* number of reserveDispatchSlot calls started
  build,                  \* which worker-handlers source is deployed
  maxRetryAttempts,       \* env.MAX_RETRY_ATTEMPTS
  maxDispatchPerMinute,   \* env.MAX_DISPATCH_PER_MINUTE of the worker
  instances,              \* table: site -> row
  deliveries,             \* table: delivery id -> row
  delivery_attempts,      \* table: delivery id -> rows in insertion order
  telemetry_samples,      \* table: set of rows
  queue,                  \* messages held by the broker (dispatch queue + DLQ)
  tick,                   \* the running handleScheduled invocation
  ticks,                  \* cron invocations started
  sendFailures,           \* queue sends rejected so far
  dups,                   \* duplicate deliveries made so far
  invalids,               \* malformed messages injected so far
  httpCalls,              \* delivery id -> trigger requests sent to the instance
  build_events,           \* table build_events: set of rows, idempotency_key unique
  response,               \* answer to the last registration request
  probe,                  \* a call of a pure helper: its arguments and its result
  syncs                   \* sync requests between their read and their write

slotVars == <<callers, reservedOk, calls>>
storeVars == <<instances, deliveries, delivery_attempts, telemetry_samples>>
\* what the handlers below leave alone: the worker's settings, the helper
\* call and the sync requests that run step by step
envVars == <<build, maxRetryAttempts, maxDispatchPerMinute, probe, syncs>>
brokerVars == <<queue, dups, invalids>>
apiVars == <<build_events, response>>
mainVars == <<build, maxRetryAttempts, maxDispatchPerMinute, instances, deliveries,
              delivery_attempts, telemetry_samples, queue, tick, ticks,
              sendFailures, dups, invalids, httpCalls, build_events, response,
              probe, syncs>>
vars == <<clock, dispatch_minute_load, callers, reservedOk, calls, build,
          maxRetryAttempts, maxDispatchPerMinute, instances, deliveries,
          delivery_attempts, telemetry_samples, queue, tick, ticks,
          sendFailures, dups, invalids, httpCalls, build_events, response, probe,
          syncs>>

\* ------------------------------------------------- slot reservation (store)
floorToMinute(t) == (t \div MinuteSeconds) * MinuteSeconds

normalizePreferredDate(preferredAt, now) ==
  IF ~IsNumber(preferredAt) THEN floorToMinute(now) ELSE floorToMinute(preferredAt)

scheduledInc(source) == IF source = "scheduled" THEN 1 ELSE 0
retryInc(source) == IF source = "retry" THEN 1 ELSE 0

\* mutant: off-by-one quota comparison
UpsertCondition_AtMost(row, maxPerMinute) == row.total_count <= maxPerMinute

\* WHERE clause of the ON CONFLICT ... DO UPDATE
UpsertCondition(row, maxPerMinute) == row.total_count < maxPerMinute

\* mutant: the statement returns the conflicting row although its update
\* was skipped
UpsertReturns_Always(load, minuteStart, maxPerMinute) == TRUE

\* TRUE iff the statement RETURNs a row
UpsertReturns(load, minuteStart, maxPerMinute) ==
  \/ minuteStart \notin DOMAIN load
  \/ UpsertCondition(load[minuteStart], maxPerMinute)

\* mutant: the update forgets to add the retry increment
UpsertMinuteLoad_NoRetryInc(load, minuteStart, source, maxPerMinute) ==
  IF minuteStart \notin DOMAIN load
  THEN [m \in DOMAIN load \cup {minuteStart} |->
          IF m = minuteStart
          THEN [scheduled_count |-> scheduledInc(source),
                retry_count |-> retryInc(source),
                total_count |-> 1]
          ELSE load[m]]
  ELSE IF UpsertCondition(load[minuteStart], maxPerMinute)
  THEN [load EXCEPT ![minuteStart] =
          [scheduled_count |-> @.scheduled_count + scheduledInc(source),
           retry_count |-> @.retry_count,
           total_count |-> @.total_count + 1]]
  ELSE load

\* the table after the single INSERT ... ON CONFLICT DO UPDATE ... WHERE
UpsertMinuteLoad(load, minuteStart, source, maxPerMinute) ==
  IF minuteStart \notin DOMAIN load
  THEN [m \in DOMAIN load \cup {minuteStart} |->
          IF m = minuteStart
          THEN [scheduled_count |-> scheduledInc(source),
                retry_count |-> retryInc(source),
                total_count |-> 1]
          ELSE load[m]]
  ELSE IF UpsertCondition(load[minuteStart], maxPerMinute)
  THEN [load EXCEPT ![minuteStart] =
          [scheduled_count |-> @.scheduled_count + scheduledInc(source),
           retry_count |-> @.retry_count + retryInc(source),
           total_count |-> @.total_count + 1]]
  ELSE load

NoSlot == [minuteStart |-> NULL, offsetMinutes |-> NULL, totalCount |-> NULL,
           scheduledCount |-> NULL, retryCount |-> NULL]

\* mutant: the offset walked is not reported
SlotResult_ZeroOffset(row, minuteStart, offset) ==
  [minuteStart |-> minuteStart, offsetMinutes |-> 0,
   totalCount |-> row.total_count, scheduledCount |-> row.scheduled_count,
   retryCount |-> row.retry_count]

SlotResult(row, minuteStart, offset) ==
  [minuteStart |-> minuteStart, offsetMinutes |-> offset,
   totalCount |-> row.total_count, scheduledCount |-> row.scheduled_count,
   retryCount |-> row.retry_count]

\* the whole for-loop of reserveDispatchSlot run without interruption:
\* the first offset whose upsert returns a row, or NULL
RECURSIVE FirstFreeOffset(_, _, _, _, _)
FirstFreeOffset(load, baseMinute, offset, maxPerMinute, lookaheadMinutes) ==
  IF offset > lookaheadMinutes THEN NULL
  ELSE IF UpsertReturns(load, baseMinute + offset * MinuteSeconds, maxPerMinute)
  THEN offset
  ELSE FirstFreeOffset(load, baseMinute, offset + 1, maxPerMinute, lookaheadMinutes)

reserveDispatchSlot(load, preferredAt, now, source, maxPerMinute, lookaheadMinutes) ==
  LET baseMinute == normalizePreferredDate(preferredAt, now)
      offset == FirstFreeOffset(load, baseMinute, 0, maxPerMinute, lookaheadMinutes)
      minuteStart == baseMinute + offset * MinuteSeconds
      after == UpsertMinuteLoad(load, minuteStart, source, maxPerMinute)
  IN IF offset = NULL
     THEN [load |-> load, slot |-> NoSlot]
     ELSE [load |-> after, slot |-> SlotResult(after[minuteStart], minuteStart, offset)]

EmptyTable == [m \in {} |-> 0]

\* no helper call is under way
NoProbe == [fn |-> "none", a |-> NULL, b |-> NULL, out |-> NULL]

\* ------------------------------------------------------------- JS numbers
\* a + b where either operand may be undefined / NaN
JsAdd(a, b) == IF IsNumber(a) /\ IsNumber(b) THEN a + b ELSE NAN

\* a >= b; any comparison with undefined / NaN is false
JsGreaterEqual(a, b) == IsNumber(a) /\ IsNumber(b) /\ a >= b

RECURSIVE Pow2(_)
Pow2(n) == IF n <= 0 THEN 1 ELSE 2 * Pow2(n - 1)

Min(a, b) == IF a <= b THEN a ELSE b

\* ---------------------------------------------------------- registration
Sites == 1..NumSites
Keys == {"k1", "k2"}
SiteUrlInputs == {"", "https://site.test/blog"}

NoInstance ==
  [instance_id |-> NULL, status |-> "none", site_url |-> "null",
   pending_reason |-> "null", site_pub_key |-> "null", minute_of_day |-> NULL,
   next_run_at |-> NULL, last_success_at |-> NULL]

\* String.prototype.trim on the strings the requests carry
Trim(s) ==
  CASE s = " moved " -> "moved"
    [] s = " idem1 " -> "idem1"
    [] s = "  " -> ""
    [] OTHER -> s

\* "null" stands for null / undefined
normalizeNullableString(value) ==
  IF value = "null" THEN "null"
  ELSE IF Trim(value) = "" THEN "null" ELSE Trim(value)

\* builtAt as an instant; UNDEFINED stands for an absent or unparsable value
normalizeIsoOrFallback(value, fallback) ==
  IF IsNumber(value) THEN value ELSE fallback

evaluateSiteUrl(siteUrl) ==
  CASE siteUrl = "" -> [url |-> "null", pendingReason |-> "pending_url_missing"]
    [] siteUrl = "https://example.com" ->
         [url |-> "null", pendingReason |-> "pending_url_default_example"]
    [] OTHER -> [url |-> "https://site.test", pendingReason |-> "null"]

\* crypto.randomUUID(): a fresh id, here one per site
generateInstanceId(siteId) == siteId

\* random is the Uint16 that crypto.getRandomValues() stores
randomMinuteOfDay(random) == random % MinutesPerDay

\* mutant: a candidate equal to the base time is kept
computeNextRunAt_NotStrict(minuteOfDay, baseDate) ==
  LET hour == minuteOfDay \div 60
      minute == minuteOfDay % 60
      candidate == (baseDate \div DaySeconds) * DaySeconds
                     + hour * HourSeconds + minute * MinuteSeconds
  IN IF candidate < baseDate THEN candidate + DaySeconds ELSE candidate

computeNextRunAt(minuteOfDay, baseDate) ==
  LET hour == minuteOfDay \div 60
      minute == minuteOfDay % 60
      candidate == (baseDate \div DaySeconds) * DaySeconds
                     + hour * HourSeconds + minute * MinuteSeconds
  IN IF candidate <= baseDate THEN candidate + DaySeconds ELSE candidate

\* mutant: the UPDATE of an existing row draws a new minute
upsertInstance_NewMinute(existing, siteId, sitePubKey, normalizedSiteUrl, pendingReason, minuteOfDay, now) ==
  LET status == IF pendingReason # "null" THEN "pending_url" ELSE "active"
  IN IF existing.status = "none"
     THEN [instance_id |-> generateInstanceId(siteId),
           status |-> status, site_url |-> normalizedSiteUrl,
           pending_reason |-> pendingReason, site_pub_key |-> sitePubKey,
           minute_of_day |-> minuteOfDay,
           next_run_at |-> IF status = "active"
                           THEN computeNextRunAt(minuteOfDay, now) ELSE NULL,
           last_success_at |-> NULL]
     ELSE [existing EXCEPT
             !.site_url = normalizedSiteUrl,
             !.status = status,
             !.pending_reason = pendingReason,
             !.site_pub_key = existing.site_pub_key,
             !.minute_of_day = minuteOfDay,
             !.next_run_at = IF status = "active"
                             THEN computeNextRunAt(minuteOfDay, now)
                             ELSE NULL]

\* minuteOfDay is the minute randomMinuteOfDay() draws for a new row
upsertInstance(existing, siteId, sitePubKey, normalizedSiteUrl, pendingReason, minuteOfDay, now) ==
  LET status == IF pendingReason # "null" THEN "pending_url" ELSE "active"
  IN IF existing.status = "none"
     THEN [instance_id |-> generateInstanceId(siteId),
           status |-> status, site_url |-> normalizedSiteUrl,
           pending_reason |-> pendingReason, site_pub_key |-> sitePubKey,
           minute_of_day |-> minuteOfDay,
           next_run_at |-> IF status = "active"
                           THEN computeNextRunAt(minuteOfDay, now) ELSE NULL,
           last_success_at |-> NULL]
     ELSE [existing EXCEPT
             !.site_url = normalizedSiteUrl,
             !.status = status,
             !.pending_reason = pendingReason,
             !.site_pub_key = existing.site_pub_key,
             !.minute_of_day = existing.minute_of_day,
             !.next_run_at = IF status = "active"
                             THEN computeNextRunAt(existing.minute_of_day, now)
                             ELSE NULL]

\* mutant: next_run_at survives the UPDATE
disableInstance_KeepsNextRun(existing, reason) ==
  [existing EXCEPT !.status = "disabled",
                   !.pending_reason = IF reason = "null" THEN "deregistered" ELSE reason]

disableInstance(existing, reason) ==
  [existing EXCEPT !.status = "disabled",
                   !.pending_reason = IF reason = "null" THEN "deregistered" ELSE reason,
                   !.next_run_at = NULL]

\* mutant: a plain INSERT that does not look at idempotency_key
insertBuildEvent_NoIgnore(events, instanceId, builtAt, buildId, idempotencyKey) ==
  events \cup {[instance_id |-> instanceId, built_at |-> builtAt,
                build_id |-> buildId, idempotency_key |-> idempotencyKey]}

\* INSERT OR IGNORE INTO build_events, idempotency_key being UNIQUE
insertBuildEvent(events, instanceId, builtAt, buildId, idempotencyKey) ==
  IF \E e \in events : e.idempotency_key = idempotencyKey
  THEN events
  ELSE events \cup {[instance_id |-> instanceId, built_at |-> builtAt,
                     build_id |-> buildId, idempotency_key |-> idempotencyKey]}

\* `${siteId}:${buildId ?? "no-build-id"}:${builtAt}`
FallbackIdempotencyKey(siteId, buildId, builtAt) ==
  ToString(siteId) \o ":"
    \o (IF buildId = "null" THEN "no-build-id" ELSE buildId)
    \o ":" \o ToString(builtAt)

\* ------------------------------------------------ registration requests
\* no body
NoSyncInput ==
  [siteId |-> NULL, valid |-> FALSE, fresh |-> FALSE, signedBy |-> "null",
   signedMinuteOfDay |-> UNDEFINED, sitePubKey |-> "null", siteUrl |-> "",
   minuteOfDay |-> UNDEFINED, idempotencyKey |-> "null", buildId |-> "null",
   builtAt |-> UNDEFINED]

\* a handler invocation of POST /v1/instances/sync that has not begun
IdleSync == [pc |-> "idle", input |-> NoSyncInput, existing |-> NoInstance,
             random |-> 0, created |-> FALSE]

NoResponse == [status |-> 0, code |-> "none"]
OkResponse == [status |-> 200, code |-> "OK"]
ErrorResponse(status, code) == [status |-> status, code |-> code]

\* syncRequestSchema.safeParse(...).data: z.object() keeps only the declared
\* keys, and minuteOfDay is not one of them
syncRequestSchema(req) == [req EXCEPT !.minuteOfDay = UNDEFINED]

\* mutant: the timestamp window is not enforced
ensureSignatureFresh_Always(req) == TRUE

\* req.fresh: |Date.now() - signature.ts| <= SIGNATURE_WINDOW_MS
ensureSignatureFresh(req) == req.fresh

\* Ed25519 verification succeeds iff the signature was made with the private
\* key of publicKey over the payload the handler rebuilds (samePayload); the
\* rebuilt sync payload has a minuteOfDay key only if the parsed input has one
verifySignedPayload(samePayload, signedBy, publicKey) ==
  samePayload /\ signedBy = publicKey

\* mutant: an existing instance is verified against the key it submits
VerifyPublicKey_Submitted(existing, input) == input.sitePubKey

VerifyPublicKey(existing, input) ==
  IF existing.status # "none" THEN existing.site_pub_key ELSE input.sitePubKey

Answer(resp, insts, events) ==
  [response |-> resp, instances |-> insts, build_events |-> events]

\* POST /v1/instances/sync as a function of the request, the store, the clock
\* and the random word
syncHandler(req, insts, events, now, random) ==
  LET input == syncRequestSchema(req)
      existing == insts[input.siteId]
      verifyPublicKey == VerifyPublicKey(existing, input)
      normalizedUrl == evaluateSiteUrl(input.siteUrl)
      buildId == normalizeNullableString(input.buildId)
      builtAt == normalizeIsoOrFallback(input.builtAt, now)
      upserted == upsertInstance(existing, input.siteId, input.sitePubKey,
                                 normalizedUrl.url, normalizedUrl.pendingReason,
                                 randomMinuteOfDay(random), now)
      idempotencyKey ==
        IF normalizeNullableString(input.idempotencyKey) # "null"
        THEN normalizeNullableString(input.idempotencyKey)
        ELSE FallbackIdempotencyKey(input.siteId, buildId, builtAt)
  IN IF ~req.valid
     THEN Answer(ErrorResponse(400, "BAD_REQUEST"), insts, events)
     ELSE IF ~ensureSignatureFresh(input)
     THEN Answer(ErrorResponse(401, "SIGNATURE_TIMESTAMP_EXPIRED"), insts, events)
     ELSE IF ~verifySignedPayload(input.signedMinuteOfDay = input.minuteOfDay,
                              input.signedBy, verifyPublicKey)
     THEN Answer(ErrorResponse(401, "INVALID_SIGNATURE"), insts, events)
     ELSE Answer(OkResponse,
                 [insts EXCEPT ![input.siteId] = upserted],
                 insertBuildEvent(events, upserted.instance_id, builtAt, buildId,
                                  idempotencyKey))

\* POST /v1/instances/deregister
deregisterHandler(req, insts, events) ==
  LET existing == insts[req.siteId]
  IN IF ~req.valid
     THEN Answer(ErrorResponse(400, "BAD_REQUEST"), insts, events)
     ELSE IF ~ensureSignatureFresh(req)
     THEN Answer(ErrorResponse(401, "SIGNATURE_TIMESTAMP_EXPIRED"), insts, events)
     ELSE IF existing.status = "none"
     THEN Answer(ErrorResponse(404, "INSTANCE_NOT_FOUND"), insts, events)
     ELSE IF ~verifySignedPayload(TRUE, req.signedBy, existing.site_pub_key)
     THEN Answer(ErrorResponse(401, "INVALID_SIGNATURE"), insts, events)
     ELSE Answer(OkResponse,
                 [insts EXCEPT ![req.siteId] =
                    disableInstance(existing, normalizeNullableString(req.reason))],
                 events)

\* POST /v1/instances/status
statusHandler(req, insts, events) ==
  LET existing == insts[req.siteId]
  IN IF ~req.valid
     THEN Answer(ErrorResponse(400, "BAD_REQUEST"), insts, events)
     ELSE IF ~ensureSignatureFresh(req)
     THEN Answer(ErrorResponse(401, "SIGNATURE_TIMESTAMP_EXPIRED"), insts, events)
     ELSE IF existing.status = "none"
     THEN Answer(ErrorResponse(404, "INSTANCE_NOT_FOUND"), insts, events)
     ELSE IF ~verifySignedPayload(TRUE, req.signedBy, existing.site_pub_key)
     THEN Answer(ErrorResponse(401, "INVALID_SIGNATURE"), insts, events)
     ELSE Answer(OkResponse, insts, events)

Sync(req, random) ==
  LET r == syncHandler(req, instances, build_events, clock, random)
  IN /\ instances' = r.instances
     /\ build_events' = r.build_events
     /\ response' = r.response
     /\ UNCHANGED <<clock, dispatch_minute_load, slotVars, envVars, deliveries,
                    delivery_attempts, telemetry_samples, brokerVars, tick, ticks,
                    sendFailures, httpCalls>>

Deregister(req) ==
  LET r == deregisterHandler(req, instances, build_events)
  IN /\ instances' = r.instances
     /\ build_events' = r.build_events
     /\ response' = r.response
     /\ UNCHANGED <<clock, dispatch_minute_load, slotVars, envVars, deliveries,
                    delivery_attempts, telemetry_samples, brokerVars, tick, ticks,
                    sendFailures, httpCalls>>

Status(req) ==
  LET r == statusHandler(req, instances, build_events)
  IN /\ instances' = r.instances
     /\ build_events' = r.build_events
     /\ response' = r.response
     /\ UNCHANGED <<clock, dispatch_minute_load, slotVars, envVars, deliveries,
                    delivery_attempts, telemetry_samples, brokerVars, tick, ticks,
                    sendFailures, httpCalls>>

\* ------------------------------------------------------- deliveries (store)
\* binding undefined / NaN to an INTEGER NOT NULL column fails the statement
NotNullViolation(n) == ~IsNumber(n)

createDelivery(table, deliveryId, instanceId, scheduledFor) ==
  [d \in DOMAIN table \cup {deliveryId} |->
     IF d = deliveryId
     THEN [instance_id |-> instanceId, scheduled_for |-> scheduledFor,
           status |-> "queued", attempt_count |-> 0, response_status |-> NULL,
           accepted |-> NULL, last_error_code |-> "null", completed_at |-> NULL]
     ELSE table[d]]

markDeliveryDelivered(table, deliveryId, attemptCount, responseStatus, accepted, now) ==
  IF deliveryId \notin DOMAIN table THEN table
  ELSE [table EXCEPT ![deliveryId] =
          [@ EXCEPT !.status = "delivered",
                    !.attempt_count = attemptCount,
                    !.response_status = responseStatus,
                    !.accepted = IF accepted THEN 1 ELSE 0,
                    !.completed_at = now]]

markDeliveryFailed(table, deliveryId, attemptCount, responseStatus, accepted, errorCode) ==
  IF deliveryId \notin DOMAIN table THEN table
  ELSE [table EXCEPT ![deliveryId] =
          [@ EXCEPT !.status = "failed",
                    !.attempt_count = attemptCount,
                    !.response_status = responseStatus,
                    !.accepted = IF accepted THEN 1 ELSE 0,
                    !.last_error_code = errorCode]]

\* mutant: the UPDATE leaves last_error_code alone
markDeliveryDead_NoErrorCode(table, deliveryId, errorCode, now) ==
  IF deliveryId \notin DOMAIN table THEN table
  ELSE [table EXCEPT ![deliveryId] =
          [@ EXCEPT !.status = "dead",
                    !.completed_at = now]]

\* mutant: the UPDATE leaves completed_at alone
markDeliveryDead_NoCompletedAt(table, deliveryId, errorCode, now) ==
  IF deliveryId \notin DOMAIN table THEN table
  ELSE [table EXCEPT ![deliveryId] =
          [@ EXCEPT !.status = "dead",
                    !.last_error_code = errorCode]]

markDeliveryDead(table, deliveryId, errorCode, now) ==
  IF deliveryId \notin DOMAIN table THEN table
  ELSE [table EXCEPT ![deliveryId] =
          [@ EXCEPT !.status = "dead",
                    !.last_error_code = errorCode,
                    !.completed_at = now]]

\* INSERT INTO delivery_attempts fails on attempt_no NOT NULL and on the
\* foreign key to deliveries(id)
insertDeliveryAttemptThrows(table, deliveryId, attemptNo) ==
  NotNullViolation(attemptNo) \/ deliveryId \notin DOMAIN table

\* rows are kept per delivery in insertion (AUTOINCREMENT id) order
insertDeliveryAttempt(rows, deliveryId, attemptNo, httpStatus, timeout, errorCode) ==
  LET row == [attempt_no |-> attemptNo, http_status |-> httpStatus,
              timeout |-> timeout, error_code |-> errorCode]
  IN [d \in DOMAIN rows \cup {deliveryId} |->
        IF d = deliveryId
        THEN (IF d \in DOMAIN rows THEN rows[d] ELSE <<>>) \o <<row>>
        ELSE rows[d]]

\* id INTEGER PRIMARY KEY AUTOINCREMENT: one more than the largest id
NextSampleId(samples) ==
  IF samples = {} THEN 1
  ELSE 1 + (CHOOSE i \in {r.id : r \in samples} : \A r \in samples : r.id <= i)

\* mutant: a plain INSERT without the conflict clause
insertTelemetrySample_NoIgnore(samples, deliveryId, collectedAt) ==
  samples \cup {[id |-> NextSampleId(samples), delivery_id |-> deliveryId,
                 collected_at |-> collectedAt]}

\* INSERT OR IGNORE on the unique delivery_id
insertTelemetrySample(samples, deliveryId, collectedAt) ==
  IF \E r \in samples : r.delivery_id = deliveryId THEN samples
  ELSE samples \cup {[id |-> NextSampleId(samples), delivery_id |-> deliveryId,
                      collected_at |-> collectedAt]}

updateInstanceLastSuccess(table, instanceId, now) ==
  IF table[instanceId].status = "none" THEN table
  ELSE [table EXCEPT ![instanceId].last_success_at = now]

updateInstanceNextRun(table, instanceId, nextRunAt) ==
  IF table[instanceId].status = "none" THEN table
  ELSE [table EXCEPT ![instanceId].next_run_at = nextRunAt]

\* ------------------------------------------------------------- scheduler
\* mutant: the scan forgets the next_run_at <= now comparison
IsDue_AnyTime(row, now) ==
  /\ row.status = "active"
  /\ row.pending_reason = "null"
  /\ row.site_url # "null"
  /\ row.next_run_at # NULL

IsDue(row, now) ==
  /\ row.status = "active"
  /\ row.pending_reason = "null"
  /\ row.site_url # "null"
  /\ row.next_run_at # NULL
  /\ row.next_run_at <= now

\* ORDER BY next_run_at ASC (ties in table order)
RECURSIVE OrderByNextRun(_, _)
OrderByNextRun(table, S) ==
  IF S = {} THEN <<>>
  ELSE LET first == CHOOSE x \in S : \A y \in S :
                      \/ table[x].next_run_at < table[y].next_run_at
                      \/ (table[x].next_run_at = table[y].next_run_at /\ x <= y)
       IN <<[instance_id |-> first, site_url |-> table[first].site_url,
             minute_of_day |-> table[first].minute_of_day,
             next_run_at |-> table[first].next_run_at]>>
          \o OrderByNextRun(table, S \ {first})

getDueInstances(table, now, limit) ==
  LET ordered == OrderByNextRun(table, {s \in Sites : IsDue(table[s], now)})
  IN SubSeq(ordered, 1, Min(limit, Len(ordered)))

IdleTick == [pc |-> "idle", nowDate |-> NULL, now |-> NULL, totalEnqueued |-> 0,
             rows |-> <<>>, i |-> 0, deliveryId |-> NULL]

generateDeliveryId(table) == Cardinality(DOMAIN table) + 1

Message(deliveryId, instanceId, dispatchAttempt) ==
  [queue |-> "dispatch", valid |-> TRUE, deliveryId |-> deliveryId,
   instanceId |-> instanceId, dispatchAttempt |-> dispatchAttempt, attempts |-> 1]

\* the cron trigger fires handleScheduled; scheduledTime is the cron minute,
\* which the invocation may observe up to one minute late
TickStart(scheduledTime) ==
  /\ tick.pc = "idle"
  /\ ticks < MaxTicks
  /\ scheduledTime = floorToMinute(scheduledTime)
  /\ scheduledTime <= clock
  /\ clock - scheduledTime < 2 * MinuteSeconds
  /\ tick' = [IdleTick EXCEPT !.pc = "fetch", !.nowDate = scheduledTime, !.now = clock]
  /\ ticks' = ticks + 1
  /\ UNCHANGED <<clock, dispatch_minute_load, slotVars, envVars, apiVars, storeVars,
                 brokerVars, sendFailures, httpCalls>>

\* while (totalEnqueued < MAX_SCHEDULE_SCAN_PER_TICK) { rows = getDueInstances ...
TickFetch ==
  LET rows == getDueInstances(instances, tick.now, ScheduleBatchLimit)
  IN /\ tick.pc = "fetch"
     /\ tick' = IF tick.totalEnqueued >= MaxScheduleScanPerTick \/ Len(rows) = 0
                THEN [tick EXCEPT !.pc = "end", !.rows = <<>>, !.i = 0]
                ELSE [tick EXCEPT !.pc = "row", !.rows = rows, !.i = 1]
     /\ UNCHANGED <<clock, dispatch_minute_load, slotVars, envVars, apiVars, storeVars,
                    brokerVars, ticks, sendFailures, httpCalls>>

\* body of "for (const row of rows)" up to createDelivery
TickRow ==
  LET row == tick.rows[tick.i]
      reserved == reserveDispatchSlot(dispatch_minute_load, tick.nowDate, clock,
                     "scheduled", maxDispatchPerMinute, MaxSlotLookaheadMinutes)
      usesSlots == build = "part_001"
      deliveryId == generateDeliveryId(deliveries)
  IN /\ tick.pc = "row"
     /\ IF tick.i > Len(tick.rows)
        THEN \* rows exhausted: back to the while condition
             /\ tick' = [tick EXCEPT !.pc = "fetch"]
             /\ UNCHANGED <<dispatch_minute_load, deliveries>>
        ELSE IF tick.totalEnqueued >= MaxScheduleScanPerTick
        THEN \* break
             /\ tick' = [tick EXCEPT !.pc = "fetch"]
             /\ UNCHANGED <<dispatch_minute_load, deliveries>>
        ELSE IF usesSlots /\ reserved.slot = NoSlot
        THEN \* slot_reserve_failed: continue
             /\ tick' = [tick EXCEPT !.i = @ + 1]
             /\ UNCHANGED <<dispatch_minute_load, deliveries>>
        ELSE /\ dispatch_minute_load' =
                  IF usesSlots THEN reserved.load ELSE dispatch_minute_load
             /\ deliveries' = createDelivery(deliveries, deliveryId, row.instance_id,
                                             row.next_run_at)
             /\ tick' = [tick EXCEPT !.pc = "send", !.deliveryId = deliveryId]
     /\ UNCHANGED <<clock, slotVars, envVars, apiVars, instances, delivery_attempts,
                    telemetry_samples, brokerVars, ticks, sendFailures, httpCalls>>

\* mutant: the first message of a delivery is numbered from 0
TickSend_ZeroBased(sendOk) ==
  LET row == tick.rows[tick.i]
      message == Message(tick.deliveryId, row.instance_id,
                         IF build = "part_001" THEN 0 ELSE UNDEFINED)
  IN /\ tick.pc = "send"
     /\ IF sendOk
        THEN /\ queue' = queue \cup {message}
             /\ tick' = [tick EXCEPT !.pc = "advance"]
             /\ UNCHANGED <<deliveries, sendFailures>>
        ELSE /\ sendFailures < MaxSendFailures
             /\ deliveries' =
                  markDeliveryDead(
                    markDeliveryFailed(deliveries, tick.deliveryId, 0, NULL, FALSE,
                                       "QUEUE_SEND_FAILED"),
                    tick.deliveryId, "QUEUE_SEND_FAILED", clock)
             /\ sendFailures' = sendFailures + 1
             /\ tick' = [tick EXCEPT !.pc = "row", !.i = @ + 1, !.deliveryId = NULL]
             /\ UNCHANGED queue
     /\ UNCHANGED <<clock, dispatch_minute_load, slotVars, envVars, apiVars, instances,
                    delivery_attempts, telemetry_samples, dups, invalids, ticks,
                    httpCalls>>

\* mutant: the catch block counts the row as enqueued
TickSend_CountsFailure(sendOk) ==
  LET row == tick.rows[tick.i]
      message == Message(tick.deliveryId, row.instance_id,
                         IF build = "part_001" THEN 1 ELSE UNDEFINED)
  IN /\ tick.pc = "send"
     /\ IF sendOk
        THEN /\ queue' = queue \cup {message}
             /\ tick' = [tick EXCEPT !.pc = "advance"]
             /\ UNCHANGED <<deliveries, sendFailures>>
        ELSE /\ sendFailures < MaxSendFailures
             /\ deliveries' =
                  markDeliveryDead(
                    markDeliveryFailed(deliveries, tick.deliveryId, 0, NULL, FALSE,
                                       "QUEUE_SEND_FAILED"),
                    tick.deliveryId, "QUEUE_SEND_FAILED", clock)
             /\ sendFailures' = sendFailures + 1
             /\ tick' = [tick EXCEPT !.pc = "row", !.i = @ + 1, !.deliveryId = NULL,
                                     !.totalEnqueued = @ + 1]
             /\ UNCHANGED queue
     /\ UNCHANGED <<clock, dispatch_minute_load, slotVars, envVars, apiVars, instances,
                    delivery_attempts, telemetry_samples, dups, invalids, ticks,
                    httpCalls>>

\* mutant: the catch block falls through to the advance of next_run_at
TickSend_AdvancesAnyway(sendOk) ==
  LET row == tick.rows[tick.i]
      message == Message(tick.deliveryId, row.instance_id,
                         IF build = "part_001" THEN 1 ELSE UNDEFINED)
  IN /\ tick.pc = "send"
     /\ IF sendOk
        THEN /\ queue' = queue \cup {message}
             /\ tick' = [tick EXCEPT !.pc = "advance"]
             /\ UNCHANGED <<deliveries, sendFailures>>
        ELSE /\ sendFailures < MaxSendFailures
             /\ deliveries' =
                  markDeliveryDead(
                    markDeliveryFailed(deliveries, tick.deliveryId, 0, NULL, FALSE,
                                       "QUEUE_SEND_FAILED"),
                    tick.deliveryId, "QUEUE_SEND_FAILED", clock)
             /\ sendFailures' = sendFailures + 1
             /\ tick' = [tick EXCEPT !.pc = "advance"]
             /\ UNCHANGED queue
     /\ UNCHANGED <<clock, dispatch_minute_load, slotVars, envVars, apiVars, instances,
                    delivery_attempts, telemetry_samples, dups, invalids, ticks,
                    httpCalls>>

\* sendToDispatchQueue in its try block, and the catch block
TickSend(sendOk) ==
  LET row == tick.rows[tick.i]
      message == Message(tick.deliveryId, row.instance_id,
                         IF build = "part_001" THEN 1 ELSE UNDEFINED)
  IN /\ tick.pc = "send"
     /\ IF sendOk
        THEN /\ queue' = queue \cup {message}
             /\ tick' = [tick EXCEPT !.pc = "advance"]
             /\ UNCHANGED <<deliveries, sendFailures>>
        ELSE \* enqueue_failed: failed, then dead; continue
             /\ sendFailures < MaxSendFailures
             /\ deliveries' =
                  markDeliveryDead(
                    markDeliveryFailed(deliveries, tick.deliveryId, 0, NULL, FALSE,
                                       "QUEUE_SEND_FAILED"),
                    tick.deliveryId, "QUEUE_SEND_FAILED", clock)
             /\ sendFailures' = sendFailures + 1
             /\ tick' = [tick EXCEPT !.pc = "row", !.i = @ + 1, !.deliveryId = NULL]
             /\ UNCHANGED queue
     /\ UNCHANGED <<clock, dispatch_minute_load, slotVars, envVars, apiVars, instances,
                    delivery_attempts, telemetry_samples, dups, invalids, ticks,
                    httpCalls>>

\* after a successful send: advance next_run_at, count the row
TickAdvance ==
  LET row == tick.rows[tick.i]
  IN /\ tick.pc = "advance"
     /\ instances' = updateInstanceNextRun(instances, row.instance_id,
                        computeNextRunAt(row.minute_of_day, tick.nowDate))
     /\ tick' = [tick EXCEPT !.pc = "row", !.i = @ + 1,
                             !.totalEnqueued = @ + 1, !.deliveryId = NULL]
     /\ UNCHANGED <<clock, dispatch_minute_load, slotVars, envVars, apiVars, deliveries,
                    delivery_attempts, telemetry_samples, brokerVars, ticks,
                    sendFailures, httpCalls>>

\* DELETE FROM telemetry_samples WHERE collected_at < now - 90 days (the
\* statements on telemetry_hourly touch a table that is not modelled)
runMaintenance(samples, now) ==
  {r \in samples : ~(r.collected_at < now - 90 * DaySeconds)}

\* DELETE FROM build_events WHERE built_at < now - 365 days
runMaintenanceBuildEvents(events, now) ==
  {e \in events : ~(e.built_at < now - 365 * DaySeconds)}

\* end of handleScheduled: maintenance when the scheduled UTC minute is 13
TickEnd ==
  LET maintenance == (tick.nowDate % HourSeconds) \div MinuteSeconds = 13
  IN /\ tick.pc = "end"
     /\ telemetry_samples' =
          IF maintenance
          THEN runMaintenance(telemetry_samples, clock) ELSE telemetry_samples
     /\ build_events' =
          IF maintenance
          THEN runMaintenanceBuildEvents(build_events, clock) ELSE build_events
     /\ tick' = IdleTick
     /\ UNCHANGED <<clock, dispatch_minute_load, slotVars, envVars, response,
                    instances, deliveries, delivery_attempts, brokerVars, ticks,
                    sendFailures, httpCalls>>

\* -------------------------------------------------------- queue consumer
\* dispatchMessageSchema.safeParse(body).data: a z.object() keeps only the
\* keys the schema declares, and the schema declares no dispatchAttempt
ParsedDispatchAttempt(message) == UNDEFINED

\* what the instance does with the trigger request, or that no token
\* could be signed
Outcomes == {"token_fail", "2xx_accepted", "2xx_rejected", "5xx_accepted",
             "timeout", "network"}
IsResponse(outcome) == outcome \in {"2xx_accepted", "2xx_rejected", "5xx_accepted"}
ResponseOk(outcome) == outcome \in {"2xx_accepted", "2xx_rejected"}
ResponseStatus(outcome) == IF ResponseOk(outcome) THEN 200 ELSE 500
TelemetryAccepted(outcome) == outcome \in {"2xx_accepted", "5xx_accepted"}

Threw(http) ==
  [threw |-> TRUE, result |-> "threw", http |-> http, instances |-> instances,
   deliveries |-> deliveries, delivery_attempts |-> delivery_attempts,
   telemetry_samples |-> telemetry_samples]

Returned(result, http, insts, dels, atts, samples) ==
  [threw |-> FALSE, result |-> result, http |-> http, instances |-> insts,
   deliveries |-> dels, delivery_attempts |-> atts, telemetry_samples |-> samples]

dispatchToInstance(message, attemptNo, outcome) ==
  LET instance == instances[message.instanceId]
      deliveryId == message.deliveryId
      insertThrows == insertDeliveryAttemptThrows(deliveries, deliveryId, attemptNo)
  IN IF instance.status # "active" \/ instance.site_url = "null"
     THEN IF insertThrows THEN Threw(FALSE)
          ELSE Returned("drop", FALSE, instances,
                 markDeliveryDead(deliveries, deliveryId, "INSTANCE_NOT_ACTIVE", clock),
                 insertDeliveryAttempt(delivery_attempts, deliveryId, attemptNo, NULL,
                                       FALSE, "INSTANCE_NOT_ACTIVE"),
                 telemetry_samples)
     ELSE IF outcome = "token_fail"
     THEN IF insertThrows THEN Threw(FALSE)
          ELSE Returned("retry", FALSE, instances,
                 markDeliveryFailed(deliveries, deliveryId, attemptNo, NULL, FALSE,
                                    "TOKEN_SIGN_FAILED"),
                 insertDeliveryAttempt(delivery_attempts, deliveryId, attemptNo, NULL,
                                       FALSE, "TOKEN_SIGN_FAILED"),
                 telemetry_samples)
     ELSE IF insertThrows
     THEN \* the insert inside try throws, the catch block's insert throws again
          Threw(TRUE)
     ELSE IF outcome = "2xx_store_fail"
     THEN \* 2xx with accepted = true, the attempt row is inserted, then the
          \* UPDATE of markDeliveryDelivered fails: control is in the catch
          \* block, which inserts a row of its own; markDeliveryFailed follows
          Returned("retry", TRUE, instances,
            markDeliveryFailed(deliveries, deliveryId, attemptNo, 200, TRUE,
                               "REQUEST_FAILED"),
            insertDeliveryAttempt(
              insertDeliveryAttempt(delivery_attempts, deliveryId, attemptNo, 200,
                                    FALSE, "null"),
              deliveryId, attemptNo, 200, FALSE, "REQUEST_FAILED"),
            telemetry_samples)
     ELSE IF IsResponse(outcome)
     THEN IF ResponseOk(outcome) /\ TelemetryAccepted(outcome)
          THEN Returned("success", TRUE,
                 updateInstanceLastSuccess(instances, message.instanceId, clock),
                 markDeliveryDelivered(deliveries, deliveryId, attemptNo,
                                       ResponseStatus(outcome),
                                       TelemetryAccepted(outcome), clock),
                 insertDeliveryAttempt(delivery_attempts, deliveryId, attemptNo,
                                       ResponseStatus(outcome), FALSE, "null"),
                 insertTelemetrySample(telemetry_samples, deliveryId, clock))
          ELSE Returned("retry", TRUE, instances,
                 markDeliveryFailed(deliveries, deliveryId, attemptNo,
                                    ResponseStatus(outcome), TelemetryAccepted(outcome),
                                    "UNACCEPTED_RESPONSE"),
                 insertDeliveryAttempt(delivery_attempts, deliveryId, attemptNo,
                                       ResponseStatus(outcome), FALSE, "null"),
                 telemetry_samples)
     ELSE Returned("retry", TRUE, instances,
            markDeliveryFailed(deliveries, deliveryId, attemptNo, NULL, FALSE,
                 IF outcome = "timeout" THEN "REQUEST_TIMEOUT" ELSE "REQUEST_FAILED"),
            insertDeliveryAttempt(delivery_attempts, deliveryId, attemptNo, NULL,
                 outcome = "timeout",
                 IF outcome = "timeout" THEN "REQUEST_TIMEOUT" ELSE "REQUEST_FAILED"),
            telemetry_samples)

\* mutant: the fifteen-minute cap is missing
computeRetryBackoffMs_NoCap(currentAttemptNo) ==
  IF currentAttemptNo \in {UNDEFINED, NAN} THEN NAN
  ELSE LET cappedAttempt == IF currentAttemptNo < 1 THEN 1 ELSE currentAttemptNo
       IN 30 * Pow2(cappedAttempt - 1) * MillisPerSecond

\* Math.max(1, undefined) is NaN, and NaN goes through to the result
computeRetryBackoffMs(currentAttemptNo) ==
  IF currentAttemptNo \in {UNDEFINED, NAN} THEN NAN
  ELSE LET cappedAttempt == IF currentAttemptNo < 1 THEN 1 ELSE currentAttemptNo
           backoffSeconds == Min(30 * Pow2(cappedAttempt - 1), 15 * 60)
       IN backoffSeconds * MillisPerSecond

\* the broker's treatment of a message that was not acknowledged (the
\* handler threw or called retry()): redeliver, or dead-letter once
\* max_retries is used up
Nack(message) ==
  IF message.attempts <= MaxBrokerRetries
  THEN [message EXCEPT !.attempts = @ + 1]
  ELSE [message EXCEPT !.queue = "dispatch-dlq", !.attempts = 1]

\* at-least-once delivery: the broker may keep handing out a message that
\* was already consumed
Redelivered(message, redeliver) == IF redeliver THEN {message} ELSE {}

CountHttp(counts, deliveryId, http) ==
  IF ~http THEN counts
  ELSE [d \in DOMAIN counts \cup {deliveryId} |->
          IF d = deliveryId
          THEN (IF d \in DOMAIN counts THEN counts[d] ELSE 0) + 1
          ELSE counts[d]]

\* handleQueue of part_001 on a one-message batch of the dispatch queue
HandleQueue(message, outcome, sendOk, redeliver) ==
  LET attemptNo == ParsedDispatchAttempt(message)
      d == dispatchToInstance(message, attemptNo, outcome)
      nextAttemptNo == JsAdd(attemptNo, 1)
      backoffMs == computeRetryBackoffMs(attemptNo)
      \* new Date(Date.now() + backoffMs), on the clock's scale of seconds
      preferredAt == IF IsNumber(backoffMs)
                     THEN clock + backoffMs \div MillisPerSecond ELSE NAN
      reserved == reserveDispatchSlot(dispatch_minute_load, preferredAt, clock, "retry",
                     maxDispatchPerMinute, MaxSlotLookaheadMinutes)
      retryMessage == [message EXCEPT !.dispatchAttempt = nextAttemptNo, !.attempts = 1]
      acked == (queue \ {message}) \cup Redelivered(message, redeliver)
  IN /\ build = "part_001"
     /\ message \in queue
     /\ message.queue = "dispatch"
     /\ redeliver => dups < MaxDuplicates
     /\ dups' = IF redeliver THEN dups + 1 ELSE dups
     /\ IF ~message.valid
        THEN \* invalid_payload: ack
             /\ queue' = acked
             /\ UNCHANGED <<storeVars, dispatch_minute_load, sendFailures, httpCalls>>
        ELSE /\ httpCalls' = CountHttp(httpCalls, message.deliveryId, d.http)
             /\ instances' = d.instances
             /\ delivery_attempts' = d.delivery_attempts
             /\ telemetry_samples' = d.telemetry_samples
             /\ IF d.threw
                THEN \* the exception leaves handleQueue: nothing is acknowledged
                     /\ queue' = acked \cup {Nack(message)}
                     /\ deliveries' = d.deliveries
                     /\ UNCHANGED <<dispatch_minute_load, sendFailures>>
                ELSE IF d.result \in {"success", "drop"}
                THEN /\ queue' = acked
                     /\ deliveries' = d.deliveries
                     /\ UNCHANGED <<dispatch_minute_load, sendFailures>>
                ELSE IF JsGreaterEqual(attemptNo, maxRetryAttempts)
                THEN /\ queue' = acked
                     /\ deliveries' = markDeliveryDead(d.deliveries, message.deliveryId,
                                                       "MAX_ATTEMPTS_EXCEEDED", clock)
                     /\ UNCHANGED <<dispatch_minute_load, sendFailures>>
                ELSE IF reserved.slot = NoSlot
                THEN \* scheduleRetryDispatch: no minute quota
                     /\ queue' = acked
                     /\ deliveries' = markDeliveryDead(d.deliveries, message.deliveryId,
                                                       "RETRY_SCHEDULE_FAILED", clock)
                     /\ UNCHANGED <<dispatch_minute_load, sendFailures>>
                ELSE IF sendOk
                THEN /\ queue' = acked \cup {retryMessage}
                     /\ dispatch_minute_load' = reserved.load
                     /\ deliveries' = d.deliveries
                     /\ UNCHANGED sendFailures
                ELSE \* the re-enqueue failed
                     /\ sendFailures < MaxSendFailures
                     /\ sendFailures' = sendFailures + 1
                     /\ queue' = acked
                     /\ dispatch_minute_load' = reserved.load
                     /\ deliveries' = markDeliveryDead(d.deliveries, message.deliveryId,
                                                       "RETRY_SCHEDULE_FAILED", clock)
     /\ UNCHANGED <<clock, slotVars, envVars, apiVars, tick, ticks, invalids>>

\* handleQueue of part_000 on a one-message batch of the dispatch queue
HandleQueueLegacy(message, outcome, redeliver) ==
  LET attemptNo == IF message.attempts = 0 THEN 1 ELSE message.attempts
      d == dispatchToInstance(message, attemptNo, outcome)
      acked == (queue \ {message}) \cup Redelivered(message, redeliver)
  IN /\ build = "part_000"
     /\ message \in queue
     /\ message.queue = "dispatch"
     /\ redeliver => dups < MaxDuplicates
     /\ dups' = IF redeliver THEN dups + 1 ELSE dups
     /\ IF ~message.valid
        THEN /\ queue' = acked
             /\ UNCHANGED <<storeVars, httpCalls>>
        ELSE /\ httpCalls' = CountHttp(httpCalls, message.deliveryId, d.http)
             /\ instances' = d.instances
             /\ delivery_attempts' = d.delivery_attempts
             /\ telemetry_samples' = d.telemetry_samples
             /\ IF d.threw
                THEN /\ queue' = acked \cup {Nack(message)}
                     /\ deliveries' = d.deliveries
                ELSE IF d.result \in {"success", "drop"}
                THEN /\ queue' = acked
                     /\ deliveries' = d.deliveries
                ELSE IF attemptNo >= maxRetryAttempts
                THEN /\ queue' = acked
                     /\ deliveries' = markDeliveryDead(d.deliveries, message.deliveryId,
                                                       "MAX_ATTEMPTS_EXCEEDED", clock)
                ELSE \* message.retry()
                     /\ queue' = acked \cup {Nack(message)}
                     /\ deliveries' = d.deliveries
     /\ UNCHANGED <<clock, dispatch_minute_load, slotVars, envVars, apiVars, tick, ticks,
                    sendFailures, invalids>>

\* handleDlq (the same in both sources) on a one-message batch
HandleDlq(message) ==
  /\ message \in queue
  /\ message.queue = "dispatch-dlq"
  /\ queue' = queue \ {message}
  /\ deliveries' = IF message.valid
                   THEN markDeliveryDead(deliveries, message.deliveryId, "DLQ_REACHED", clock)
                   ELSE deliveries
  /\ UNCHANGED <<clock, dispatch_minute_load, slotVars, envVars, apiVars, instances,
                 delivery_attempts, telemetry_samples, tick, ticks,
                 sendFailures, dups, invalids, httpCalls>>

\* ------------------------------------------------------------ environment
InvalidMessage(queueName) ==
  [queue |-> queueName, valid |-> FALSE, deliveryId |-> NULL, instanceId |-> NULL,
   dispatchAttempt |-> UNDEFINED, attempts |-> 1]

\* a body that fails dispatchMessageSchema arrives on a queue
InjectInvalid(queueName) ==
  /\ invalids < MaxInvalid
  /\ InvalidMessage(queueName) \notin queue
  /\ queue' = queue \cup {InvalidMessage(queueName)}
  /\ invalids' = invalids + 1
  /\ UNCHANGED <<clock, dispatch_minute_load, slotVars, envVars, apiVars, storeVars, dups,
                 tick, ticks, sendFailures, httpCalls>>

AdvanceClock ==
  /\ clock < MaxClockSteps * ClockStep
  /\ clock' = clock + ClockStep
  /\ UNCHANGED <<dispatch_minute_load, slotVars, mainVars>>

\* ---------------------------------------------------------- specification
MainInit ==
  /\ build \in {"part_000", "part_001"}
  /\ maxRetryAttempts \in 1..MaxRetryAttemptsBound
  /\ maxDispatchPerMinute \in 1..MaxDispatchPerMinute
  \* part_000 never reads MAX_DISPATCH_PER_MINUTE
  /\ build = "part_000" => maxDispatchPerMinute = MaxDispatchPerMinute
  /\ deliveries = EmptyTable
  /\ delivery_attempts = EmptyTable
  /\ telemetry_samples = {}
  /\ queue = {}
  /\ tick = IdleTick
  /\ ticks = 0
  /\ sendFailures = 0
  /\ dups = 0
  /\ invalids = 0
  /\ httpCalls = EmptyTable
  /\ build_events = {}
  /\ response = NoResponse
  /\ syncs = [r \in 1..MaxSyncers |-> IdleSync]

\* ---------------------------------------- concurrent reserveDispatchSlot calls
IdleCaller == [pc |-> "idle", baseMinute |-> NULL, offset |-> 0,
               source |-> "scheduled", result |-> NoSlot]

\* entry of reserveDispatchSlot: normalise the preferred date
SlotCall(c, preferredAt, source) ==
  /\ callers[c].pc \in {"idle", "done"}
  /\ calls < MaxCalls
  /\ callers' = [callers EXCEPT ![c] =
        [pc |-> "walk", baseMinute |-> normalizePreferredDate(preferredAt, clock),
         offset |-> 0, source |-> source, result |-> NoSlot]]
  /\ calls' = calls + 1
  /\ UNCHANGED <<clock, dispatch_minute_load, reservedOk>>
  /\ UNCHANGED mainVars

\* one iteration of the for-loop: one atomic upsert on the candidate minute
SlotStep(c) ==
  LET st == callers[c]
      minuteStart == st.baseMinute + st.offset * MinuteSeconds
      after == UpsertMinuteLoad(dispatch_minute_load, minuteStart, st.source,
                                maxDispatchPerMinute)
  IN /\ st.pc = "walk"
     /\ IF st.offset > MaxSlotLookaheadMinutes
        THEN /\ callers' = [callers EXCEPT ![c].pc = "done", ![c].result = NoSlot]
             /\ UNCHANGED <<dispatch_minute_load, reservedOk>>
        ELSE IF UpsertReturns(dispatch_minute_load, minuteStart, maxDispatchPerMinute)
        THEN /\ dispatch_minute_load' = after
             /\ callers' = [callers EXCEPT ![c].pc = "done",
                   ![c].result = SlotResult(after[minuteStart], minuteStart, st.offset)]
             /\ reservedOk' = [m \in DOMAIN reservedOk \cup {minuteStart} |->
                   IF m = minuteStart
                   THEN (IF m \in DOMAIN reservedOk THEN reservedOk[m] ELSE 0) + 1
                   ELSE reservedOk[m]]
        ELSE /\ callers' = [callers EXCEPT ![c].offset = @ + 1]
             /\ UNCHANGED <<dispatch_minute_load, reservedOk>>
     /\ UNCHANGED <<clock, calls>>
     /\ UNCHANGED mainVars

SlotInit ==
  /\ clock = 0
  /\ dispatch_minute_load = EmptyTable
  /\ callers = [c \in 1..NumCallers |-> IdleCaller]
  /\ reservedOk = EmptyTable
  /\ calls = 0
  /\ MainInit
  /\ probe = NoProbe
  /\ instances = [s \in Sites |-> NoInstance]

SlotNext ==
  \/ \E c \in 1..NumCallers, p \in Times \cup {NAN}, s \in {"scheduled", "retry"} :
        SlotCall(c, p, s)
  \/ \E c \in 1..NumCallers : SlotStep(c)

SpecSlot == SlotInit /\ [][SlotNext]_vars

\* ------------------------------------------------------ whole worker
SlotIdle ==
  /\ callers = [c \in 1..NumCallers |-> IdleCaller]
  /\ reservedOk = EmptyTable
  /\ calls = 0

Init ==
  /\ clock = 0
  /\ dispatch_minute_load = EmptyTable
  /\ SlotIdle
  /\ MainInit
  /\ probe = NoProbe
  /\ instances = [s \in Sites |-> NoInstance]

TickStep ==
  \/ TickFetch
  \/ TickRow
  \/ \E sendOk \in BOOLEAN : TickSend(sendOk)
  \/ TickAdvance
  \/ TickEnd

\* inputs the requests and the instance draw from
SyncKeys == {"k1"}
DeregisterReasons == {"null"}
TriggerOutcomes == {"2xx_accepted", "2xx_rejected", "timeout"}

\* Uint16 words: one below and, per further minute, one above MinutesPerDay
RandomWords == {k * (MinutesPerDay + 1) : k \in 0..MaxMinuteOfDay}

\* a well-formed, fresh sync request signed by the key it submits
BaseSync(site) ==
  [siteId |-> site, valid |-> TRUE, fresh |-> TRUE, signedBy |-> "k1",
   signedMinuteOfDay |-> UNDEFINED, sitePubKey |-> "k1",
   siteUrl |-> "https://site.test/blog", minuteOfDay |-> UNDEFINED,
   idempotencyKey |-> "idem1", buildId |-> "b1", builtAt |-> 0]

\* a body that carries minuteOfDay, signed over the declared keys only
CarriesMinuteOfDay(site) ==
  [BaseSync(site) EXCEPT !.minuteOfDay = MinutesPerDay - 1]

SyncInputs ==
  {[BaseSync(site) EXCEPT !.sitePubKey = key, !.signedBy = key, !.siteUrl = url] :
     site \in Sites, key \in SyncKeys, url \in SiteUrlInputs}
  \cup {CarriesMinuteOfDay(site) : site \in Sites}

DeregisterInputs ==
  [siteId : Sites, valid : {TRUE}, fresh : {TRUE}, signedBy : SyncKeys,
   reason : DeregisterReasons]

StatusInputs ==
  [siteId : Sites, valid : {TRUE}, fresh : {TRUE}, signedBy : SyncKeys]

Next ==
  \/ \E req \in SyncInputs, random \in RandomWords : Sync(req, random)
  \/ \E req \in DeregisterInputs : Deregister(req)
  \/ \E req \in StatusInputs : Status(req)
  \/ \E t \in Times : TickStart(t)
  \/ TickStep
  \/ \E message \in queue, outcome \in TriggerOutcomes, sendOk \in BOOLEAN,
        redeliver \in BOOLEAN :
        HandleQueue(message, outcome, sendOk, redeliver)
  \/ \E message \in queue, outcome \in TriggerOutcomes, redeliver \in BOOLEAN :
        HandleQueueLegacy(message, outcome, redeliver)
  \/ \E message \in queue : HandleDlq(message)
  \/ \E queueName \in {"dispatch"} : InjectInvalid(queueName)
  \/ AdvanceClock

Spec == Init /\ [][Next]_vars

FairSpec == Spec /\ WF_vars(TickStep)

\* ------------------------------------------- one scheduler tick on its own
\* registration requests arrive only before the cron trigger fires; after it
\* nothing but handleScheduled and the wall clock moves
TickAloneNext ==
  \/ /\ ticks = 0
     /\ \E req \in SyncInputs, random \in RandomWords : Sync(req, random)
  \/ /\ ticks = 0
     /\ \E req \in DeregisterInputs : Deregister(req)
  \/ \E t \in Times : TickStart(t)
  \/ TickStep
  \/ AdvanceClock

SpecTick == Init /\ [][TickAloneNext]_vars

\* ------------------------------------------- the way to the dead-letter queue
\* an instance that never answers in time: the broker redelivers and finally
\* dead-letters its message; malformed bodies are put on the dead-letter
\* queue directly
DlqNext ==
  \/ \E req \in SyncInputs, random \in RandomWords : Sync(req, random)
  \/ \E t \in Times : TickStart(t)
  \/ TickStep
  \/ \E message \in queue : HandleQueue(message, "timeout", TRUE, FALSE)
  \/ \E message \in queue : HandleQueueLegacy(message, "timeout", FALSE)
  \/ \E message \in queue : HandleDlq(message)
  \/ \E queueName \in {"dispatch-dlq"} : InjectInvalid(queueName)
  \/ AdvanceClock

SpecDlq == Init /\ [][DlqNext]_vars

\* ------------------------------------ deregistration around a scheduler tick
DeregisterNext ==
  \/ \E req \in SyncInputs, random \in RandomWords : Sync(req, random)
  \/ \E req \in DeregisterInputs, reason \in {"null", "moved", " moved ", "  "} :
        Deregister([req EXCEPT !.reason = reason])
  \/ \E t \in Times : TickStart(t)
  \/ TickStep
  \/ AdvanceClock

SpecDeregister == Init /\ [][DeregisterNext]_vars

\* ------------------------------------------- the registration API on its own
MaxUint16 == 65535

\* the requests of SyncInputs; both keys as submitted and as signing key; a
\* body that carries minuteOfDay and is signed over all its keys; explicit,
\* padded and absent idempotencyKey with given and absent builtAt; stale and
\* malformed bodies
RegistrySyncInputs ==
  SyncInputs
  \cup {[BaseSync(site) EXCEPT !.sitePubKey = key, !.signedBy = signedBy,
                               !.siteUrl = url] :
          site \in Sites, key \in Keys, signedBy \in Keys, url \in SiteUrlInputs}
  \cup {[CarriesMinuteOfDay(site) EXCEPT !.signedMinuteOfDay = MinutesPerDay - 1] :
          site \in Sites}
  \cup {[BaseSync(site) EXCEPT !.idempotencyKey = key, !.builtAt = builtAt] :
          site \in Sites, key \in {"null", "idem1", " idem1 "},
          builtAt \in {UNDEFINED, 0}}
  \cup {[BaseSync(site) EXCEPT !.valid = valid, !.fresh = fresh,
                               !.signedBy = signedBy] :
          site \in Sites, valid \in BOOLEAN, fresh \in BOOLEAN, signedBy \in Keys}

RegistryDeregisterInputs ==
  [siteId : Sites, valid : BOOLEAN, fresh : BOOLEAN, signedBy : Keys,
   reason : {"null", "moved", " moved ", "  "}]

RegistryStatusInputs ==
  [siteId : Sites, valid : BOOLEAN, fresh : BOOLEAN, signedBy : Keys]

\* the registration handlers read neither the build's queue consumer nor the
\* retry and quota settings
RegistryInit ==
  /\ Init
  /\ build = "part_001"
  /\ maxRetryAttempts = MaxRetryAttemptsBound
  /\ maxDispatchPerMinute = MaxDispatchPerMinute

RegistryNext ==
  \/ \E req \in RegistrySyncInputs, random \in RandomWords \cup {MaxUint16} :
        Sync(req, random)
  \/ \E req \in RegistryDeregisterInputs : Deregister(req)
  \/ \E req \in RegistryStatusInputs : Status(req)
  \/ AdvanceClock

SpecRegistry == RegistryInit /\ [][RegistryNext]_vars

\* ------------------------------ a scheduler tick next to other reservations
\* while a tick runs, another invocation of the worker (a queue consumer
\* scheduling retries) reserves slots of its own, each upsert a step of its own
QuotaNext ==
  \/ /\ ticks = 0
     /\ \E req \in SyncInputs, random \in RandomWords : Sync(req, random)
  \/ \E p \in Times : SlotCall(1, p, "retry")
  \/ SlotStep(1)
  \/ \E t \in Times : TickStart(t)
  \/ TickStep
  \/ AdvanceClock

\* the worker whose scheduler reserves slots
QuotaInit ==
  /\ Init
  /\ build = "part_001"

SpecQuota == QuotaInit /\ [][QuotaNext]_vars

\* ------------------------------------- a tick that dies before its enqueue
MaxCrashes == 1            \* invocations of handleScheduled that die

\* the invocation ends (the runtime kills it) after createDelivery and before
\* the queue send: what it wrote stays, its locals are gone
TickCrash ==
  /\ tick.pc = "send"
  /\ Cardinality(DOMAIN deliveries) <= MaxCrashes
  /\ tick' = IdleTick
  /\ UNCHANGED <<clock, dispatch_minute_load, slotVars, envVars, apiVars, storeVars,
                 brokerVars, ticks, sendFailures, httpCalls>>

\* the cron trigger goes on firing every minute: the count of invocations
\* starts over
CronRecurs ==
  /\ tick.pc = "idle"
  /\ ticks = MaxTicks
  /\ ticks' = 0
  /\ UNCHANGED <<clock, dispatch_minute_load, slotVars, envVars, apiVars, storeVars,
                 brokerVars, tick, sendFailures, httpCalls>>

\* it is minute 13 of the hour, so that every tick ends with runMaintenance,
\* and every site registered a second before with this minute as its own
CrashInit ==
  /\ clock = 13 * MinuteSeconds
  /\ dispatch_minute_load = EmptyTable
  /\ SlotIdle
  /\ MainInit
  /\ probe = NoProbe
  /\ instances = [s \in Sites |->
        upsertInstance(NoInstance, s, "k1", "https://site.test", "null", 13,
                       13 * MinuteSeconds - 1)]

\* the queue takes every message of the scheduler
CrashTick == TickFetch \/ TickRow \/ TickSend(TRUE) \/ TickAdvance \/ TickEnd

CrashNext ==
  \/ TickStart(clock)
  \/ CrashTick
  \/ TickCrash
  \/ CronRecurs
  \/ \E message \in queue, outcome \in {"2xx_accepted", "timeout"} :
        HandleQueue(message, outcome, TRUE, FALSE)
  \/ \E message \in queue, outcome \in {"2xx_accepted", "timeout"} :
        HandleQueueLegacy(message, outcome, FALSE)
  \/ \E message \in queue : HandleDlq(message)

\* every started tick runs on, the trigger keeps firing, and the broker hands
\* out every message it holds
FairCrash ==
  /\ CrashInit
  /\ [][CrashNext]_vars
  /\ WF_vars(TickStart(clock))
  /\ WF_vars(CrashTick)
  /\ WF_vars(CronRecurs)
  /\ WF_vars(\E message \in queue, outcome \in {"2xx_accepted", "timeout"} :
                HandleQueue(message, outcome, TRUE, FALSE))
  /\ WF_vars(\E message \in queue, outcome \in {"2xx_accepted", "timeout"} :
                HandleQueueLegacy(message, outcome, FALSE))
  /\ WF_vars(\E message \in queue : HandleDlq(message))

\* ------------------------------------------------- the pure helpers
MaxBackoffAttempt == 12    \* attempt numbers run from -bound to bound
MaxBaseDays == 2           \* base times lie in this many days

ApplyRetryBackoff ==
  /\ probe.fn = "computeRetryBackoffMs"
  /\ probe.out = NULL
  /\ probe' = [probe EXCEPT !.out = computeRetryBackoffMs(probe.a)]
  /\ UNCHANGED <<clock, dispatch_minute_load, slotVars, build, maxRetryAttempts,
                 maxDispatchPerMinute, syncs, apiVars, storeVars, brokerVars, tick,
                 ticks, sendFailures, httpCalls>>

ApplyNextRunAt ==
  /\ probe.fn = "computeNextRunAt"
  /\ probe.out = NULL
  /\ probe' = [probe EXCEPT !.out = computeNextRunAt(probe.a, probe.b)]
  /\ UNCHANGED <<clock, dispatch_minute_load, slotVars, build, maxRetryAttempts,
                 maxDispatchPerMinute, syncs, apiVars, storeVars, brokerVars, tick,
                 ticks, sendFailures, httpCalls>>

\* Math.max(0, Math.ceil((Date.parse(minuteStartIso) - Date.now()) / 1000))
computeDelaySeconds(minuteStart, now) ==
  IF ~IsNumber(minuteStart) THEN 0
  ELSE IF minuteStart - now > 0 THEN minuteStart - now ELSE 0

\* scheduleRetryDispatch up to the delay it hands to the queue: the slot is
\* reserved for now + backoff, the delay is derived from the reserved minute
ApplyRetryDelay ==
  LET preferredAt == clock + computeRetryBackoffMs(probe.a) \div MillisPerSecond
      reserved == reserveDispatchSlot(dispatch_minute_load, preferredAt, clock, "retry",
                     maxDispatchPerMinute, MaxSlotLookaheadMinutes)
  IN /\ probe.fn = "scheduleRetryDispatch"
     /\ probe.out = NULL
     /\ dispatch_minute_load' = reserved.load
     /\ probe' = [probe EXCEPT
                    !.out = computeDelaySeconds(reserved.slot.minuteStart, clock)]
     /\ UNCHANGED <<clock, slotVars, build, maxRetryAttempts, maxDispatchPerMinute,
                    syncs, apiVars, storeVars, brokerVars, tick, ticks, sendFailures,
                    httpCalls>>

HelperInit ==
  /\ dispatch_minute_load = EmptyTable
  /\ SlotIdle
  /\ MainInit
  /\ build = "part_001"
  /\ maxRetryAttempts = MaxRetryAttemptsBound
  /\ maxDispatchPerMinute = MaxDispatchPerMinute
  /\ instances = [s \in Sites |-> NoInstance]
  \* the calls made: attempt numbers, those below 1 included (UNDEFINED and
  \* NAN are not numbers); every minute of day with base times around
  \* midnight, a minute boundary, noon and the instance's own minute
  /\ \/ \E n \in ((-MaxBackoffAttempt)..MaxBackoffAttempt) \ {UNDEFINED, NAN} :
          probe = [fn |-> "computeRetryBackoffMs", a |-> n, b |-> NULL, out |-> NULL]
     \/ \E m \in 0..(MinutesPerDay - 1), day \in 0..(MaxBaseDays - 1) :
          \E t \in {0, 1, MinuteSeconds - 1, MinuteSeconds, 12 * HourSeconds,
                    DaySeconds - 1, m * MinuteSeconds - 1, m * MinuteSeconds,
                    m * MinuteSeconds + 1} :
            /\ t >= 0
            /\ probe = [fn |-> "computeNextRunAt", a |-> m,
                        b |-> day * DaySeconds + t, out |-> NULL]
     \* retries scheduled after attempt n at every quarter of a minute
     \/ \E n \in 1..MaxBackoffAttempt, now \in {0, 15, 30, 45, 59, 60} :
          probe = [fn |-> "scheduleRetryDispatch", a |-> n, b |-> now, out |-> NULL]
  /\ clock = IF probe.fn = "scheduleRetryDispatch" THEN probe.b ELSE 0

SpecHelpers ==
  HelperInit /\ [][ApplyRetryBackoff \/ ApplyNextRunAt \/ ApplyRetryDelay]_vars

\* ------------------------------------------------- ticks on later days
MaxDays == 2               \* the wall clock runs over this many days
RetainDays == 1            \* retainDays handed to cleanupDispatchMinuteLoad

\* DELETE FROM dispatch_minute_load WHERE minute_start < now - retainDays
\* (at least one day)
cleanupDispatchMinuteLoad(load, retainDays, now) ==
  LET days == IF retainDays < 1 THEN 1 ELSE retainDays
      cutoff == now - days * DaySeconds
  IN [m \in {x \in DOMAIN load : ~(x < cutoff)} |-> load[m]]

\* the wall clock moves on: from minute 13 to minute 14 of an hour at any
\* time; between two invocations to minute 13 of the next hour or by a day
MaxHourOfDay == 1          \* the ticks watched lie in the hours 0..bound

TimePasses(delta) ==
  /\ delta \in {MinuteSeconds, HourSeconds - MinuteSeconds, DaySeconds}
  /\ delta = MinuteSeconds => (clock % HourSeconds) \div MinuteSeconds = 13
  /\ delta = HourSeconds - MinuteSeconds =>
       /\ (clock % HourSeconds) \div MinuteSeconds = 14
       /\ (clock % DaySeconds) \div HourSeconds < MaxHourOfDay
  /\ delta # MinuteSeconds => tick.pc = "idle"
  /\ clock + delta <= MaxDays * DaySeconds + HourSeconds
  /\ clock' = clock + delta
  /\ UNCHANGED <<dispatch_minute_load, slotVars, mainVars>>

\* the cron trigger fires for the current minute, ticks run to their end,
\* nothing consumes the queue
RetentionNext ==
  \/ TickStart(floorToMinute(clock))
  \/ TickStep
  \/ CronRecurs
  \/ \E delta \in {MinuteSeconds, HourSeconds - MinuteSeconds, DaySeconds} :
        TimePasses(delta)

\* starts at minute 13 of the first hour with a due instance
SpecRetention == CrashInit /\ [][RetentionNext]_vars

\* ------------------------------------- bodies without a usable dispatchAttempt
MaxAttemptless == 1        \* such bodies put on the dispatch queue

\* a body that has every other field of a dispatch message arrives on the
\* dispatch queue for an existing delivery, its dispatchAttempt missing or 0
InjectAttemptless(deliveryId, dispatchAttempt) ==
  LET message == [Message(deliveryId, deliveries[deliveryId].instance_id,
                          dispatchAttempt) EXCEPT !.attempts = 1]
  IN /\ invalids < MaxAttemptless
     /\ deliveryId \in DOMAIN deliveries
     /\ dispatchAttempt \in {UNDEFINED, 0}
     /\ message \notin queue
     /\ queue' = queue \cup {message}
     /\ invalids' = invalids + 1
     /\ UNCHANGED <<clock, dispatch_minute_load, slotVars, envVars, apiVars, storeVars,
                    dups, tick, ticks, sendFailures, httpCalls>>

MalformedNext ==
  \/ TickStart(clock)
  \/ TickStep
  \/ \E d \in DOMAIN deliveries, a \in {UNDEFINED, 0} : InjectAttemptless(d, a)
  \/ \E queueName \in {"dispatch"} : InjectInvalid(queueName)
  \/ \E message \in queue, outcome \in TriggerOutcomes, sendOk \in BOOLEAN :
        HandleQueue(message, outcome, sendOk, FALSE)
  \/ \E message \in queue : HandleDlq(message)

\* the worker whose consumer reads dispatchAttempt, a due instance registered
MalformedInit ==
  /\ CrashInit
  /\ build = "part_001"

SpecMalformed == MalformedInit /\ [][MalformedNext]_vars

\* ------------------------------------------- a store write that fails
\* the instance accepts, times out, or accepts while the store rejects the
\* UPDATE that follows the attempt row; the queue takes every message
StoreFailOutcomes == {"2xx_accepted", "2xx_store_fail", "timeout"}

StoreFailNext ==
  \/ TickStart(clock)
  \/ CrashTick
  \/ \E message \in queue, outcome \in StoreFailOutcomes :
        HandleQueue(message, outcome, TRUE, FALSE)
  \/ \E message \in queue, outcome \in StoreFailOutcomes :
        HandleQueueLegacy(message, outcome, FALSE)
  \/ \E message \in queue : HandleDlq(message)

SpecStoreFail == CrashInit /\ [][StoreFailNext]_vars

\* ------------------------------------- sync requests that run side by side
\* POST /v1/instances/sync awaits the store between its read of the row and
\* its write, so another request for the same siteId can run in between; a
\* request is modelled in two steps, the read with the checks and the write

\* crypto.randomUUID() of request r: an id no row of the table carries
FreshInstanceId(r) == NumSites + r

\* mutant: the table accepts a second row for a site_id and the later one
\* takes the place of the earlier
SiteIdTaken_NotEnforced(current) == FALSE

\* site_id TEXT NOT NULL UNIQUE: a plain INSERT fails when the site has a row
SiteIdTaken(current) == current.status # "none"

\* the handler up to and including getInstanceBySiteId and the signature check
SyncRead(r, req, random) ==
  LET checked == syncHandler(req, instances, build_events, clock, random)
      input == syncRequestSchema(req)
  IN /\ syncs[r].pc \in {"idle", "done"}
     /\ IF checked.response # OkResponse
        THEN /\ response' = checked.response
             /\ syncs' = [syncs EXCEPT ![r] = [IdleSync EXCEPT !.pc = "done"]]
        ELSE /\ syncs' = [syncs EXCEPT ![r] =
                            [pc |-> "write", input |-> input,
                             existing |-> instances[input.siteId],
                             random |-> random, created |-> FALSE]]
             /\ UNCHANGED response
     /\ UNCHANGED <<clock, dispatch_minute_load, slotVars, build, maxRetryAttempts,
                    maxDispatchPerMinute, probe, storeVars, build_events,
                    brokerVars, tick, ticks, sendFailures, httpCalls>>

\* upsertInstance with the row the request read, then insertBuildEvent; a
\* statement that fails rejects, and app.onError answers 500
SyncWrite(r) ==
  LET st == syncs[r]
      input == st.input
      current == instances[input.siteId]
      normalizedUrl == evaluateSiteUrl(input.siteUrl)
      buildId == normalizeNullableString(input.buildId)
      builtAt == normalizeIsoOrFallback(input.builtAt, clock)
      upserted == upsertInstance(st.existing, input.siteId, input.sitePubKey,
                                 normalizedUrl.url, normalizedUrl.pendingReason,
                                 randomMinuteOfDay(st.random), clock)
      inserts == st.existing.status = "none"
      instanceId == IF inserts THEN FreshInstanceId(r) ELSE upserted.instance_id
      \* UPDATE instances SET ... WHERE site_id = ?
      updated == [current EXCEPT
                    !.site_url = upserted.site_url,
                    !.status = upserted.status,
                    !.pending_reason = upserted.pending_reason,
                    !.site_pub_key = upserted.site_pub_key,
                    !.minute_of_day = upserted.minute_of_day,
                    !.next_run_at = upserted.next_run_at]
      idempotencyKey ==
        IF normalizeNullableString(input.idempotencyKey) # "null"
        THEN normalizeNullableString(input.idempotencyKey)
        ELSE FallbackIdempotencyKey(input.siteId, buildId, builtAt)
  IN /\ st.pc = "write"
     /\ IF inserts /\ SiteIdTaken(current)
        THEN /\ response' = ErrorResponse(500, "INTERNAL_ERROR")
             /\ syncs' = [syncs EXCEPT ![r] = [st EXCEPT !.pc = "done"]]
             /\ UNCHANGED <<instances, build_events>>
        ELSE /\ instances' =
                  [instances EXCEPT ![input.siteId] =
                     IF inserts
                     THEN [upserted EXCEPT !.instance_id = instanceId]
                     ELSE updated]
             /\ build_events' = insertBuildEvent(build_events, instanceId, builtAt,
                                                 buildId, idempotencyKey)
             /\ response' = OkResponse
             /\ syncs' = [syncs EXCEPT ![r] =
                            [st EXCEPT !.pc = "done", !.created = inserts]]
     /\ UNCHANGED <<clock, dispatch_minute_load, slotVars, build, maxRetryAttempts,
                    maxDispatchPerMinute, probe, deliveries, delivery_attempts,
                    telemetry_samples, brokerVars, tick, ticks, sendFailures,
                    httpCalls>>

\* each key signs for itself; the last body is signed by the other key
RaceSyncInputs ==
  {[BaseSync(site) EXCEPT !.sitePubKey = key, !.signedBy = key, !.siteUrl = url] :
     site \in Sites, key \in Keys, url \in SiteUrlInputs}
  \cup {[BaseSync(site) EXCEPT !.sitePubKey = "k1", !.signedBy = "k2"] : site \in Sites}

RaceNext ==
  \/ \E r \in 1..MaxSyncers, req \in RaceSyncInputs, random \in RandomWords :
        SyncRead(r, req, random)
  \/ \E r \in 1..MaxSyncers : SyncWrite(r)
  \/ \E req \in DeregisterInputs : Deregister(req)
  \/ AdvanceClock

SpecSyncRace == RegistryInit /\ [][RaceNext]_vars

\* ---------------------------------------------------------------- claims
MinuteIsFull(load, m) ==
  m \in DOMAIN load /\ load[m].total_count >= maxDispatchPerMinute

\* C1: every dispatch_minute_load row has total_count = scheduled_count +
\* retry_count and total_count <= MAX_DISPATCH_PER_MINUTE, after any sequence
\* of reserveDispatchSlot calls with source 'scheduled' or 'retry'.
C1_MinuteLoadRowInvariant ==
  \A m \in DOMAIN dispatch_minute_load :
    /\ dispatch_minute_load[m].total_count =
         dispatch_minute_load[m].scheduled_count + dispatch_minute_load[m].retry_count
    /\ dispatch_minute_load[m].total_count <= maxDispatchPerMinute

\* a bucket filled to the quota by reservations of both sources
C1_Witness ==
  \E m \in DOMAIN dispatch_minute_load :
    /\ dispatch_minute_load[m].total_count = maxDispatchPerMinute
    /\ dispatch_minute_load[m].retry_count >= 1
    /\ dispatch_minute_load[m].scheduled_count >= 1

\* C2: under every interleaving of concurrent reserveDispatchSlot calls with
\* the same maxPerMinute N, at most N reservations return successfully for any
\* one minute bucket.
C2_AtMostNReservationsPerMinute ==
  \A m \in DOMAIN reservedOk : reservedOk[m] <= maxDispatchPerMinute

\* two calls were walking the same window at the same time, the bucket took
\* its N-th reservation and one of the calls had to move on
C2_Witness ==
  \E m \in DOMAIN reservedOk, c, d \in 1..NumCallers :
    /\ c # d
    /\ reservedOk[m] = maxDispatchPerMinute
    /\ callers[c].pc = "done" /\ callers[c].result.minuteStart = m
    /\ callers[d].pc = "walk" /\ callers[d].baseMinute = m /\ callers[d].offset = 1

\* C3: a returning reserveDispatchSlot call reports the earliest minute of
\* floorToMinute(preferredAt) + {0..L} that was below N, the number of
\* minutes skipped as offsetMinutes and the post-increment counters; it
\* returns nothing only if every minute of the window is full.
C3_EarliestFreeMinute ==
  [][\A c \in 1..NumCallers :
      (callers[c].pc = "walk" /\ callers'[c].pc = "done") =>
        LET base == callers[c].baseMinute
            src == callers[c].source
            r == callers'[c].result
            old == dispatch_minute_load
            new == dispatch_minute_load'
        IN IF r = NoSlot
           THEN \A k \in 0..MaxSlotLookaheadMinutes :
                   MinuteIsFull(old, base + k * MinuteSeconds)
           ELSE /\ r.offsetMinutes \in 0..MaxSlotLookaheadMinutes
                /\ r.minuteStart = base + r.offsetMinutes * MinuteSeconds
                /\ \A k \in 0..(r.offsetMinutes - 1) :
                      MinuteIsFull(old, base + k * MinuteSeconds)
                /\ ~MinuteIsFull(old, r.minuteStart)
                /\ r.totalCount =
                     (IF r.minuteStart \in DOMAIN old
                      THEN old[r.minuteStart].total_count ELSE 0) + 1
                /\ r.scheduledCount =
                     (IF r.minuteStart \in DOMAIN old
                      THEN old[r.minuteStart].scheduled_count ELSE 0) + scheduledInc(src)
                /\ r.retryCount =
                     (IF r.minuteStart \in DOMAIN old
                      THEN old[r.minuteStart].retry_count ELSE 0) + retryInc(src)
                /\ new[r.minuteStart].total_count = r.totalCount
  ]_vars

\* the (N+1)-th reservation of a minute spilled to the next minute
C3_Witness ==
  \E c \in 1..NumCallers :
    /\ callers[c].pc = "done"
    /\ callers[c].result.offsetMinutes = 1
    /\ callers[c].result.minuteStart = callers[c].baseMinute + MinuteSeconds
    /\ MinuteIsFull(dispatch_minute_load, callers[c].baseMinute)

\* C4: every delivered delivery has completed_at set and accepted = 1, and
\* every dead delivery has completed_at set.
C4_TerminalDeliveryFields ==
  \A d \in DOMAIN deliveries :
    /\ deliveries[d].status = "delivered" =>
         deliveries[d].completed_at # NULL /\ deliveries[d].accepted = 1
    /\ deliveries[d].status = "dead" => deliveries[d].completed_at # NULL

\* one delivery was delivered by the consumer and another one is dead
C4_Witness ==
  \E d, e \in DOMAIN deliveries :
    /\ deliveries[d].status = "delivered"
    /\ deliveries[d].attempt_count >= 1
    /\ deliveries[e].status = "dead"

\* C5: a delivery that is dead stays dead in every later step (scheduler
\* tick, main-queue consumption, DLQ drain, redelivery of its message).
C5_DeadStaysDead ==
  [][\A d \in DOMAIN deliveries :
       deliveries[d].status = "dead" => deliveries'[d].status = "dead"]_vars

\* C6: a delivery that is delivered never goes back to failed or queued.
C6_DeliveredIsTerminal ==
  [][\A d \in DOMAIN deliveries :
       deliveries[d].status = "delivered" =>
         deliveries'[d].status \notin {"failed", "queued"}]_vars

\* the consumer handles message m, the instance answering with outcome o
Consumes(m, o) ==
  \E sendOk \in BOOLEAN :
    HandleQueue(m, o, sendOk, FALSE) \/ HandleQueueLegacy(m, o, FALSE)

\* C7: when the dispatch of a message whose dispatchAttempt has reached
\* MAX_RETRY_ATTEMPTS does not succeed, the consumer marks the delivery dead
\* with MAX_ATTEMPTS_EXCEEDED, acknowledges the message, reserves no retry
\* slot and leaves no message for that delivery in the queue.
C7_MaxAttemptsMarksDead ==
  [][\A m \in queue, o \in {"2xx_rejected", "timeout"} :
       ( /\ m.valid
         /\ JsGreaterEqual(m.dispatchAttempt, maxRetryAttempts)
         /\ instances[m.instanceId].status = "active"
         /\ Consumes(m, o) ) =>
       ( /\ deliveries'[m.deliveryId].status = "dead"
         /\ deliveries'[m.deliveryId].last_error_code = "MAX_ATTEMPTS_EXCEEDED"
         /\ dispatch_minute_load' = dispatch_minute_load
         /\ \A n \in queue' : n.deliveryId # m.deliveryId )]_vars

\* C8 (its bound on wire attempts): without broker duplicates no delivery is
\* sent to its instance more than MAX_RETRY_ATTEMPTS times.
C8_AtMostMaxWireAttempts ==
  dups = 0 => \A d \in DOMAIN httpCalls : httpCalls[d] <= maxRetryAttempts

\* C9: on every path the consumer acknowledges the main-queue message (it
\* leaves the broker) and never hands it back for a broker retry.
C9_AckOnceNeverRetry ==
  [][\A m \in queue, o \in TriggerOutcomes :
       (m.queue = "dispatch" /\ Consumes(m, o)) =>
         (m \notin queue' /\ Nack(m) \notin queue')]_vars

\* C10: every scheduler tick that has started comes to its end.
C10_TickTerminates == (tick.pc # "idle") ~> (tick.pc = "idle")

DeliveriesOf(instanceId) ==
  {d \in DOMAIN deliveries : deliveries[d].instance_id = instanceId}

\* C11: a single scheduler tick running alone creates at most one delivery
\* per due instance, whether or not the enqueue succeeds (the behaviours of
\* SpecTick hold one tick, so every delivery row is that tick's).
C11_OneDeliveryPerInstancePerTick ==
  \A s \in Sites : Cardinality(DeliveriesOf(s)) <= 1

\* the instances a scan at time now may return, written from the claim
Selectable(now) ==
  {s \in Sites : /\ instances[s].status = "active"
                 /\ instances[s].status \notin {"pending_url", "disabled"}
                 /\ instances[s].pending_reason = "null"
                 /\ instances[s].site_url # "null"
                 /\ instances[s].next_run_at # NULL
                 /\ instances[s].next_run_at <= now}

RowIds(rows) == {rows[k].instance_id : k \in 1..Len(rows)}

\* C12: a scan selects only instances that are active, with pending_reason
\* null, site_url non-null and next_run_at <= now at scan time; it selects
\* every such instance up to the batch limit (all of them when they fit,
\* and at least one whenever one exists); and a tick creates delivery rows
\* only for instances of its last scan.
C12_ScanSelectsExactlyDueActive ==
  [][/\ (TickFetch /\ tick.totalEnqueued < MaxScheduleScanPerTick) =>
          /\ RowIds(tick'.rows) \subseteq Selectable(tick.now)
          /\ Len(tick'.rows) = Min(ScheduleBatchLimit, Cardinality(Selectable(tick.now)))
          /\ Cardinality(RowIds(tick'.rows)) = Len(tick'.rows)
     /\ \A d \in DOMAIN deliveries' \ DOMAIN deliveries :
          deliveries'[d].instance_id \in RowIds(tick.rows)]_vars

\* a scan found the instance and the tick created its delivery
C12_Witness ==
  /\ tick.pc = "advance"
  /\ Len(tick.rows) > 0
  /\ DeliveriesOf(tick.rows[1].instance_id) # {}

Exists(s) == instances[s].status # "none"

\* C13: once a siteId has an instance row, no step changes its site_pub_key,
\* and in every reachable state every sync, deregister or status request for
\* it that passes parsing and the freshness check is verified by its handler
\* against that stored key: signed with
\* another key (even the key the sync itself submits) it is answered 401
\* INVALID_SIGNATURE and changes nothing; signed with the stored key over
\* the payload the handler rebuilds it is answered 200.
C13_StoredKeyPinnedAndUsed ==
  /\ [][\A s \in Sites :
          Exists(s) => instances'[s].site_pub_key = instances[s].site_pub_key]_vars
  /\ [](\A s \in Sites : Exists(s) =>
          /\ \A req \in RegistrySyncInputs, random \in RandomWords \cup {MaxUint16} :
               LET r == syncHandler(req, instances, build_events, clock, random)
               IN (req.siteId = s /\ req.valid /\ req.fresh) =>
                    IF req.signedBy # instances[s].site_pub_key
                    THEN r = Answer(ErrorResponse(401, "INVALID_SIGNATURE"),
                                    instances, build_events)
                    ELSE req.signedMinuteOfDay = UNDEFINED => r.response = OkResponse
          /\ \A req \in RegistryDeregisterInputs :
               LET r == deregisterHandler(req, instances, build_events)
               IN (req.siteId = s /\ req.valid /\ req.fresh) =>
                    IF req.signedBy # instances[s].site_pub_key
                    THEN r = Answer(ErrorResponse(401, "INVALID_SIGNATURE"),
                                    instances, build_events)
                    ELSE r.response = OkResponse
          /\ \A req \in RegistryStatusInputs :
               LET r == statusHandler(req, instances, build_events)
               IN (req.siteId = s /\ req.valid /\ req.fresh) =>
                    IF req.signedBy # instances[s].site_pub_key
                    THEN r = Answer(ErrorResponse(401, "INVALID_SIGNATURE"),
                                    instances, build_events)
                    ELSE r.response = OkResponse)

\* a request for a registered site was rejected for its signature, and the
\* site was disabled and synced again in between without its key changing
C13_Witness ==
  \E s \in Sites :
    /\ Exists(s)
    /\ instances[s].site_pub_key = "k1"
    /\ instances[s].status = "disabled"
    /\ Cardinality(build_events) > 1
    /\ response = ErrorResponse(401, "INVALID_SIGNATURE")

\* C14: the minute_of_day of an instance row lies in [0, 1439] and no step
\* (sync, with or without a minuteOfDay field, deregister, status, scheduler
\* tick, queue consumption) changes it once the row exists.
C14_MinuteOfDayFixed ==
  /\ [](\A s \in Sites :
          Exists(s) => instances[s].minute_of_day \in 0..(MinutesPerDay - 1))
  /\ [][\A s \in Sites :
          Exists(s) => instances'[s].minute_of_day = instances[s].minute_of_day]_vars

\* the instance drew its minute from a word above 1439, a tick created a
\* delivery for it, the consumer handled it, and a later sync (the row is
\* pending_url now, which a row with deliveries can only be by a re-sync)
\* left the minute alone
C14_Witness ==
  \E s \in Sites :
    /\ instances[s].status = "pending_url"
    /\ instances[s].minute_of_day = 1
    /\ \E d \in DeliveriesOf(s) : deliveries[d].status # "queued"

\* the attempt number each handleQueue passes to dispatchToInstance
AttemptNoOf(message) ==
  IF build = "part_001" THEN ParsedDispatchAttempt(message)
  ELSE IF message.attempts = 0 THEN 1 ELSE message.attempts

\* C15: for a valid message of the dispatch queue whose instance is active
\* with a site_url, dispatchToInstance marks the delivery delivered, stamps
\* last_success_at and returns success when the instance answers 2xx with
\* accepted = true; on every other outcome (non-2xx, accepted = false,
\* timeout, network error, token signing failure) it marks the delivery
\* failed, returns retry and leaves last_success_at alone.
C15_DeliveredIffOkAndAccepted ==
  \A message \in queue, outcome \in Outcomes :
    LET d == dispatchToInstance(message, AttemptNoOf(message), outcome)
        instance == instances[message.instanceId]
    IN (/\ message.valid
        /\ message.queue = "dispatch"
        /\ instance.status = "active"
        /\ instance.site_url # "null") =>
          IF ResponseOk(outcome) /\ TelemetryAccepted(outcome)
          THEN /\ ~d.threw
               /\ d.result = "success"
               /\ d.deliveries[message.deliveryId].status = "delivered"
               /\ d.instances[message.instanceId].last_success_at = clock
          ELSE /\ ~d.threw
               /\ d.result = "retry"
               /\ d.deliveries[message.deliveryId].status = "failed"
               /\ d.instances = instances

SamplesOf(samples, deliveryId) == {r \in samples : r.delivery_id = deliveryId}

\* the consumer handles message m with outcome o, the broker handing the
\* message out again or not
Dispatches(m, o) ==
  \E sendOk \in BOOLEAN, redeliver \in BOOLEAN :
    HandleQueue(m, o, sendOk, redeliver) \/ HandleQueueLegacy(m, o, redeliver)

\* C16: telemetry_samples never holds two rows with one delivery_id; a step
\* that adds a row is a dispatch that leaves that delivery delivered; and a
\* dispatch of a delivery that already has its row leaves the table as it is.
C16_OneSamplePerDelivery ==
  /\ [](\A d \in DOMAIN deliveries :
          Cardinality(SamplesOf(telemetry_samples, d)) <= 1)
  /\ [][/\ \A r \in telemetry_samples' \ telemetry_samples :
              /\ r.delivery_id \in DOMAIN deliveries
              /\ deliveries'[r.delivery_id].status = "delivered"
              /\ \E m \in queue, o \in TriggerOutcomes :
                   m.deliveryId = r.delivery_id /\ Dispatches(m, o)
         /\ \A m \in queue, o \in TriggerOutcomes :
              (Dispatches(m, o) /\ m.valid
                 /\ SamplesOf(telemetry_samples, m.deliveryId) # {})
                => telemetry_samples' = telemetry_samples]_vars

\* a delivery with one sample was dispatched successfully twice: with two
\* attempts allowed, both of its attempt rows are first attempts answered
\* 200 and no message of it is left, which a rejected first dispatch (whose
\* message goes back to the broker) cannot produce
C16_Witness ==
  \E d \in DOMAIN deliveries :
    /\ maxRetryAttempts = 2
    /\ deliveries[d].status = "delivered"
    /\ SamplesOf(telemetry_samples, d) # {}
    /\ Len(delivery_attempts[d]) = 2
    /\ \A k \in 1..2 : /\ delivery_attempts[d][k].attempt_no = 1
                       /\ delivery_attempts[d][k].http_status = 200
    /\ \A m \in queue : m.deliveryId # d

\* C17: handling a message of the dead-letter queue acknowledges it and puts
\* nothing back on a queue; a valid one leaves its delivery dead with
\* DLQ_REACHED and every other delivery as it was, an invalid one leaves the
\* deliveries alone; neither writes an attempt row, a sample, an instance or a
\* minute-load row, nor calls the instance; and the dispatching consumer never
\* takes a message of the dead-letter queue.
C17_DlqMarksDeadAndAcks ==
  [][/\ \A m \in queue :
          HandleDlq(m) =>
            /\ queue' = queue \ {m}
            /\ IF m.valid
               THEN /\ deliveries'[m.deliveryId].status = "dead"
                    /\ deliveries'[m.deliveryId].last_error_code = "DLQ_REACHED"
                    /\ \A d \in DOMAIN deliveries \ {m.deliveryId} :
                         deliveries'[d] = deliveries[d]
                    /\ DOMAIN deliveries' = DOMAIN deliveries
               ELSE deliveries' = deliveries
            /\ UNCHANGED <<instances, delivery_attempts, telemetry_samples,
                           httpCalls, dispatch_minute_load, build_events>>
     /\ \A m \in queue, o \in Outcomes :
          Dispatches(m, o) => m.queue = "dispatch"
     /\ \A m \in queue :
          (m.queue = "dispatch-dlq" /\ m \notin queue') => HandleDlq(m)]_vars

\* a dead-lettered message left its delivery dead with DLQ_REACHED, and the
\* malformed body put on the dead-letter queue was consumed
C17_Witness ==
  /\ \E d \in DOMAIN deliveries :
       /\ deliveries[d].status = "dead"
       /\ deliveries[d].last_error_code = "DLQ_REACHED"
  /\ invalids = MaxInvalid
  /\ InvalidMessage("dispatch-dlq") \notin queue

\* the answer the order parse, freshness, load, verify prescribes for a
\* request that one of the checks stops; loads says whether the endpoint
\* answers 404 for an unknown siteId
Rejection(req, loads, storedKey, samePayload) ==
  IF ~req.valid THEN ErrorResponse(400, "BAD_REQUEST")
  ELSE IF ~req.fresh THEN ErrorResponse(401, "SIGNATURE_TIMESTAMP_EXPIRED")
  ELSE IF loads /\ storedKey = "null" THEN ErrorResponse(404, "INSTANCE_NOT_FOUND")
  ELSE IF ~samePayload \/ req.signedBy # storedKey
  THEN ErrorResponse(401, "INVALID_SIGNATURE")
  ELSE OkResponse

\* C18: in every reachable state each handler answers a request by the first
\* check that stops it, in the order parse (400 BAD_REQUEST), freshness (401
\* SIGNATURE_TIMESTAMP_EXPIRED, also for an unknown siteId), load (404 for
\* deregister and status), verify (401 INVALID_SIGNATURE); a request that is
\* not answered 200 leaves instances and build_events as they were, and no
\* step whose answer is not 200 changes the store.
C18_RejectedRequestsChangeNothing ==
  /\ [](/\ \A req \in RegistrySyncInputs, random \in RandomWords \cup {MaxUint16} :
            LET r == syncHandler(req, instances, build_events, clock, random)
                stored == instances[req.siteId].site_pub_key
            IN /\ r.response =
                    Rejection(req, FALSE,
                              IF stored = "null" THEN req.sitePubKey ELSE stored,
                              req.signedMinuteOfDay = UNDEFINED)
               /\ r.response # OkResponse =>
                    r.instances = instances /\ r.build_events = build_events
        /\ \A req \in RegistryDeregisterInputs :
            LET r == deregisterHandler(req, instances, build_events)
            IN /\ r.response =
                    Rejection(req, TRUE, instances[req.siteId].site_pub_key, TRUE)
               /\ r.response # OkResponse =>
                    r.instances = instances /\ r.build_events = build_events
        /\ \A req \in RegistryStatusInputs :
            LET r == statusHandler(req, instances, build_events)
            IN /\ r.response =
                    Rejection(req, TRUE, instances[req.siteId].site_pub_key, TRUE)
               /\ r.instances = instances /\ r.build_events = build_events)
  /\ [][response' # OkResponse =>
          UNCHANGED <<instances, build_events, deliveries, delivery_attempts,
                      telemetry_samples, dispatch_minute_load>>]_vars

\* a stale request for a siteId that has no instance was answered 401
C18_Witness ==
  /\ response = ErrorResponse(401, "SIGNATURE_TIMESTAMP_EXPIRED")
  /\ \A s \in Sites : ~Exists(s)
  /\ build_events = {}

\* two sync bodies name the same build event: the same idempotencyKey (up to
\* surrounding blanks), or none and the same siteId, buildId and builtAt
SameBuildEvent(req1, req2) ==
  LET key1 == normalizeNullableString(req1.idempotencyKey)
      key2 == normalizeNullableString(req2.idempotencyKey)
  IN \/ key1 # "null" /\ key1 = key2
     \/ /\ key1 = "null" /\ key2 = "null"
        /\ req1.siteId = req2.siteId
        /\ req1.buildId = req2.buildId
        /\ IsNumber(req1.builtAt) /\ req1.builtAt = req2.builtAt

DeregisterFrame(siteId) ==
  /\ instances'[siteId].site_pub_key = instances[siteId].site_pub_key
  /\ instances'[siteId].minute_of_day = instances[siteId].minute_of_day
  /\ instances'[siteId].site_url = instances[siteId].site_url
  /\ instances'[siteId].instance_id = instances[siteId].instance_id
  /\ \A s \in Sites \ {siteId} : instances'[s] = instances[s]
  /\ UNCHANGED <<deliveries, delivery_attempts, dispatch_minute_load>>

\* C20 as stated: a deregister answered 200 leaves the row disabled with
\* next_run_at null and pending_reason equal to the given reason, or to
\* 'deregistered' when none is given; site_pub_key, minute_of_day, site_url
\* and instance_id are unchanged and no delivery, attempt or minute-load row
\* is touched.
C20_DeregisterAsStated ==
  [][\A req \in DeregisterInputs, reason \in {"null", "moved", " moved ", "  "} :
       (Deregister([req EXCEPT !.reason = reason]) /\ response' = OkResponse) =>
          /\ instances'[req.siteId].status = "disabled"
          /\ instances'[req.siteId].next_run_at = NULL
          /\ instances'[req.siteId].pending_reason =
               (IF reason = "null" THEN "deregistered" ELSE reason)
          /\ DeregisterFrame(req.siteId)]_vars

\* C20 amended: the same, with pending_reason equal to the given reason
\* stripped of surrounding blanks, or to 'deregistered' when the reason is
\* absent or blank.
C20_DeregisterTrimsReason ==
  [][\A req \in DeregisterInputs, reason \in {"null", "moved", " moved ", "  "} :
       (Deregister([req EXCEPT !.reason = reason]) /\ response' = OkResponse) =>
          /\ instances'[req.siteId].status = "disabled"
          /\ instances'[req.siteId].next_run_at = NULL
          /\ instances'[req.siteId].pending_reason =
               (IF reason = "null" \/ Trim(reason) = ""
                THEN "deregistered" ELSE Trim(reason))
          /\ DeregisterFrame(req.siteId)]_vars

\* an instance that has a delivery and a minute-load row was deregistered
\* with a reason
C20_Witness ==
  \E s \in Sites :
    /\ instances[s].status = "disabled"
    /\ instances[s].pending_reason = "moved"
    /\ instances[s].next_run_at = NULL
    /\ DeliveriesOf(s) # {}
    /\ DOMAIN dispatch_minute_load # {}

\* C21: the retry backoff of attempt n >= 1 is min(30 * 2^(n-1), 900) seconds
\* in milliseconds: 30, 60, 120, 240, 480, 900 seconds for n = 1..6 and 900
\* after that; it never exceeds 900000 ms, does not decrease with n, and an
\* attempt number below 1 gets the backoff of attempt 1.
C21_RetryBackoff ==
  (probe.fn = "computeRetryBackoffMs" /\ probe.out # NULL) =>
    LET n == probe.a
        StatedSeconds == IF n <= 6 THEN <<30, 60, 120, 240, 480, 900>>[n] ELSE 900
    IN /\ n >= 1 => probe.out = StatedSeconds * 1000
       /\ n >= 1 => probe.out = Min(30 * Pow2(n - 1), 900) * 1000
       /\ probe.out <= 900000
       /\ n > (-MaxBackoffAttempt) /\ n - 1 \notin {UNDEFINED, NAN} =>
            computeRetryBackoffMs(n - 1) <= probe.out
       /\ n < 1 => probe.out = 30000 /\ probe.out = computeRetryBackoffMs(1)

\* the backoff of an attempt past the cap was computed
C21_Witness ==
  /\ probe.fn = "computeRetryBackoffMs"
  /\ probe.a = 7
  /\ probe.out = 900000

\* C22: for every minuteOfDay m in [0, 1439] and every base time t,
\* computeNextRunAt(m, t) is later than t, at most 24 hours later, and has
\* UTC hour floor(m / 60), minute m mod 60 and zero seconds.
C22_NextRunAt ==
  (probe.fn = "computeNextRunAt" /\ probe.out # NULL) =>
    LET m == probe.a
        t == probe.b
        secondOfDay == probe.out % DaySeconds
    IN /\ probe.out > t
       /\ probe.out <= t + 24 * HourSeconds
       /\ secondOfDay \div HourSeconds = m \div 60
       /\ (secondOfDay % HourSeconds) \div MinuteSeconds = m % 60
       /\ secondOfDay % MinuteSeconds = 0

\* the base time was exactly the instance's minute on the second day, so the
\* run moved to the day after
C22_Witness ==
  /\ probe.fn = "computeNextRunAt"
  /\ probe.a = MinutesPerDay - 1
  /\ probe.b = DaySeconds + (MinutesPerDay - 1) * MinuteSeconds
  /\ probe.out = 2 * DaySeconds + (MinutesPerDay - 1) * MinuteSeconds

\* every minute from baseMinute through the look-ahead is at its quota
WindowFull(baseMinute) ==
  \A k \in 0..MaxSlotLookaheadMinutes :
    MinuteIsFull(dispatch_minute_load, baseMinute + k * MinuteSeconds)

\* C23: when every minute from floorToMinute(preferredAt) through the
\* look-ahead already has total_count >= maxPerMinute, reserveDispatchSlot
\* returns nothing and leaves every dispatch_minute_load row as it is (as one
\* call and upsert by upsert); a scheduler tick that meets such a window skips
\* the row: no delivery is created, nothing is enqueued, next_run_at is not
\* advanced, the row is not counted, and the loop goes on to the next row.
C23_FullWindowSkips ==
  /\ [](\A p \in Times \cup {NAN}, source \in {"scheduled", "retry"} :
          WindowFull(normalizePreferredDate(p, clock)) =>
            reserveDispatchSlot(dispatch_minute_load, p, clock, source,
                                maxDispatchPerMinute, MaxSlotLookaheadMinutes)
              = [load |-> dispatch_minute_load, slot |-> NoSlot])
  /\ [][/\ \A c \in 1..NumCallers :
              ( (SlotStep(c) /\ WindowFull(callers[c].baseMinute)) =>
                  /\ dispatch_minute_load' = dispatch_minute_load
                  /\ callers'[c].result = NoSlot )
         /\ ( ( /\ tick.pc = "row"
                /\ tick.i <= Len(tick.rows)
                /\ tick.totalEnqueued < MaxScheduleScanPerTick
                /\ WindowFull(floorToMinute(tick.nowDate))
                /\ TickRow ) =>
                  /\ UNCHANGED <<dispatch_minute_load, deliveries, instances,
                                 queue, delivery_attempts, sendFailures>>
                  /\ tick' = [tick EXCEPT !.i = @ + 1] )]_vars

\* a tick met a full window on its first row and skipped it (no delivery
\* exists, no send failed, the instance is still due), and the other
\* invocation's reservation on the same window came back empty
C23_Witness ==
  /\ tick.pc = "row"
  /\ tick.i = 2
  /\ Len(tick.rows) = 1
  /\ deliveries = EmptyTable
  /\ sendFailures = 0
  /\ queue = {}
  /\ WindowFull(floorToMinute(tick.nowDate))
  /\ IsDue(instances[tick.rows[1].instance_id], tick.now)
  /\ callers[1].pc = "done"
  /\ callers[1].result = NoSlot
  /\ callers[1].baseMinute = floorToMinute(tick.nowDate)

\* C24: the attempt_count of a delivery never decreases, and it is at least
\* every attempt_no recorded for the delivery, on whatever path the attempt
\* was recorded (INSTANCE_NOT_ACTIVE, repeated or out-of-order messages).
C24_AttemptCountIsHighest ==
  /\ [](\A d \in DOMAIN delivery_attempts :
          \A k \in 1..Len(delivery_attempts[d]) :
            deliveries[d].attempt_count >= delivery_attempts[d][k].attempt_no)
  /\ [][\A d \in DOMAIN deliveries :
          deliveries'[d].attempt_count >= deliveries[d].attempt_count]_vars

\* C25: when the instance of a valid dispatch message is missing, not active
\* or without site_url at dispatch time, dispatchToInstance returns drop
\* without calling the instance, and consuming the message adds one attempt
\* row with INSTANCE_NOT_ACTIVE, leaves the delivery dead with that code,
\* acknowledges the message, reserves no slot and enqueues nothing.
C25_InactiveInstanceDrops ==
  [][\A m \in queue, o \in TriggerOutcomes :
       LET instance == instances[m.instanceId]
           d == dispatchToInstance(m, AttemptNoOf(m), o)
           before == IF m.deliveryId \in DOMAIN delivery_attempts
                     THEN delivery_attempts[m.deliveryId] ELSE <<>>
       IN ( /\ m.valid
            /\ m.queue = "dispatch"
            /\ instance.status # "active" \/ instance.site_url = "null"
            /\ Consumes(m, o) ) =>
          ( /\ ~d.threw
            /\ d.result = "drop"
            /\ ~d.http
            /\ httpCalls' = httpCalls
            /\ m.deliveryId \in DOMAIN delivery_attempts'
            /\ Len(delivery_attempts'[m.deliveryId]) = Len(before) + 1
            /\ delivery_attempts'[m.deliveryId][Len(before) + 1].error_code
                 = "INSTANCE_NOT_ACTIVE"
            /\ deliveries'[m.deliveryId].status = "dead"
            /\ deliveries'[m.deliveryId].last_error_code = "INSTANCE_NOT_ACTIVE"
            /\ queue' = queue \ {m}
            /\ dispatch_minute_load' = dispatch_minute_load )]_vars

\* C26: a valid message is put on the dispatch queue only when its delivery
\* row exists already, so every valid message of the queue refers to an
\* existing delivery row; and a tick advances the next_run_at of an instance
\* only when it holds a delivery of that instance for the run it replaces
\* whose message was enqueued (it is on the queue, or the consumer or the
\* dead-letter drain has handled it since).
C26_DeliveryBeforeMessage ==
  /\ [](\A m \in queue : m.valid => m.deliveryId \in DOMAIN deliveries)
  /\ [][/\ (\A m \in queue' \ queue :
               m.valid => m.deliveryId \in DOMAIN deliveries)
         /\ \A s \in Sites :
              ( (TickStep /\ instances'[s].next_run_at # instances[s].next_run_at) =>
                  \E d \in DOMAIN deliveries :
                    /\ d = tick.deliveryId
                    /\ deliveries[d].instance_id = s
                    /\ deliveries[d].scheduled_for = tick.rows[tick.i].next_run_at
                    /\ deliveries[d].last_error_code # "QUEUE_SEND_FAILED"
                    /\ \/ \E m \in queue : m.valid /\ m.deliveryId = d
                       \/ deliveries[d].status # "queued" )]_vars

\* a tick has advanced the instance past the run whose delivery is still
\* queued with its message on the dispatch queue
C26_Witness ==
  \E s \in Sites, d \in DOMAIN deliveries :
    /\ tick.pc = "row"
    /\ tick.totalEnqueued = 1
    /\ deliveries[d].instance_id = s
    /\ deliveries[d].status = "queued"
    /\ instances[s].next_run_at > deliveries[d].scheduled_for
    /\ \E m \in queue : m.deliveryId = d /\ m.queue = "dispatch"

\* C27: when the enqueue of a scheduled message fails, the tick marks the
\* delivery it has just created failed and then dead, both with
\* QUEUE_SEND_FAILED, so that it ends dead with that code, completed_at set
\* and attempt_count 0; it changes no instance (next_run_at is not
\* advanced), enqueues nothing, does not count the row as enqueued, and goes
\* on with the next row.
C27_EnqueueFailureMarksDead ==
  [][(tick.pc = "send" /\ TickSend(FALSE)) =>
       LET d == tick.deliveryId
           failed == markDeliveryFailed(deliveries, d, 0, NULL, FALSE,
                                        "QUEUE_SEND_FAILED")
       IN /\ deliveries[d].status = "queued"
          /\ failed[d].status = "failed"
          /\ failed[d].last_error_code = "QUEUE_SEND_FAILED"
          /\ deliveries' = markDeliveryDead(failed, d, "QUEUE_SEND_FAILED", clock)
          /\ deliveries'[d].status = "dead"
          /\ deliveries'[d].last_error_code = "QUEUE_SEND_FAILED"
          /\ deliveries'[d].completed_at = clock
          /\ deliveries'[d].attempt_count = 0
          /\ \A e \in DOMAIN deliveries \ {d} : deliveries'[e] = deliveries[e]
          /\ instances' = instances
          /\ queue' = queue
          /\ tick'.totalEnqueued = tick.totalEnqueued
          /\ tick'.pc = "row"
          /\ tick'.rows = tick.rows
          /\ tick'.i = tick.i + 1]_vars

\* the send of the tick's first row failed: its delivery is dead with
\* QUEUE_SEND_FAILED, the instance is still due for the same run, nothing
\* was counted or enqueued, and the loop stands at the next row
C27_Witness ==
  \E s \in Sites, d \in DOMAIN deliveries :
    /\ tick.pc = "row"
    /\ tick.i = 2
    /\ tick.totalEnqueued = 0
    /\ sendFailures = 1
    /\ queue = {}
    /\ deliveries[d].instance_id = s
    /\ deliveries[d].status = "dead"
    /\ deliveries[d].last_error_code = "QUEUE_SEND_FAILED"
    /\ instances[s].next_run_at = deliveries[d].scheduled_for

\* C28: when the consumer that schedules retries handles a valid message
\* with dispatchAttempt n < MAX_RETRY_ATTEMPTS of an active instance, the
\* instance does not accept (so that dispatch asks for a retry), a retry
\* slot is free and the queue takes the message, then exactly one minute
\* bucket grows, by 1 in retry_count and in total_count, and the queue loses
\* the message and gains exactly one new message, equal to it except for
\* dispatchAttempt = n + 1.
C28_RetryReservesAndReenqueues ==
  [][\A m \in queue, o \in {"2xx_rejected", "timeout"} :
       LET n == m.dispatchAttempt
           instance == instances[m.instanceId]
           preferredAt == clock + computeRetryBackoffMs(n) \div MillisPerSecond
           Row(load, minute) ==
             IF minute \in DOMAIN load THEN load[minute]
             ELSE [scheduled_count |-> 0, retry_count |-> 0, total_count |-> 0]
       IN ( /\ build = "part_001"
            /\ m.valid
            /\ m.queue = "dispatch"
            /\ IsNumber(n)
            /\ n < maxRetryAttempts
            /\ instance.status = "active"
            /\ instance.site_url # "null"
            /\ ~WindowFull(floorToMinute(preferredAt))
            /\ HandleQueue(m, o, TRUE, FALSE) ) =>
          ( /\ \E minute \in DOMAIN dispatch_minute_load' :
                 /\ Row(dispatch_minute_load', minute) =
                      [Row(dispatch_minute_load, minute) EXCEPT
                         !.retry_count = @ + 1, !.total_count = @ + 1]
                 /\ \A other \in DOMAIN dispatch_minute_load' \ {minute} :
                      Row(dispatch_minute_load', other) = Row(dispatch_minute_load, other)
            /\ queue' = (queue \ {m})
                          \cup {[m EXCEPT !.dispatchAttempt = n + 1, !.attempts = 1]}
            /\ [m EXCEPT !.dispatchAttempt = n + 1, !.attempts = 1] \notin queue )]_vars

\* C29: when the consumer that schedules retries handles a valid message
\* with dispatchAttempt n < MAX_RETRY_ATTEMPTS of an active instance, the
\* instance does not accept, and either every minute of the retry window is
\* full or the queue rejects the new message, then the delivery is left dead
\* with RETRY_SCHEDULE_FAILED, the message is acknowledged, and no message
\* of that delivery is on a queue.
C29_RetryScheduleFailureMarksDead ==
  [][\A m \in queue, o \in {"2xx_rejected", "timeout"} :
       LET n == m.dispatchAttempt
           instance == instances[m.instanceId]
           preferredAt == clock + computeRetryBackoffMs(n) \div MillisPerSecond
       IN ( /\ build = "part_001"
            /\ m.valid
            /\ m.queue = "dispatch"
            /\ IsNumber(n)
            /\ n < maxRetryAttempts
            /\ instance.status = "active"
            /\ instance.site_url # "null"
            /\ \/ WindowFull(floorToMinute(preferredAt)) /\ HandleQueue(m, o, TRUE, FALSE)
               \/ HandleQueue(m, o, FALSE, FALSE) ) =>
          ( /\ deliveries'[m.deliveryId].status = "dead"
            /\ deliveries'[m.deliveryId].last_error_code = "RETRY_SCHEDULE_FAILED"
            /\ m \notin queue'
            /\ \A other \in queue' : other.deliveryId # m.deliveryId )]_vars

\* C30: a delivery that is queued while no message of it is on a queue and
\* no running tick is about to send one (its tick died between
\* createDelivery and the enqueue) becomes dead in the end.
C30_OrphanDeliveryDies ==
  \A d \in 1..(MaxCrashes + 1) :
    ( /\ d \in DOMAIN deliveries
      /\ deliveries[d].status = "queued"
      /\ tick.deliveryId # d
      /\ \A m \in queue : m.deliveryId # d )
    ~> (d \in DOMAIN deliveries /\ deliveries[d].status = "dead")

\* C31: when a tick whose scheduled UTC minute is 13 ends, no row of
\* dispatch_minute_load older than the retention window (one day) is left;
\* a tick of any other minute ends without maintenance: it deletes nothing.
C31_MaintenanceTrimsMinuteLoad ==
  [][(tick.pc = "end" /\ tick'.pc = "idle") =>
       IF (tick.nowDate % HourSeconds) \div MinuteSeconds = 13
       THEN dispatch_minute_load' =
              cleanupDispatchMinuteLoad(dispatch_minute_load, RetainDays, clock)
       ELSE /\ dispatch_minute_load' = dispatch_minute_load
            /\ telemetry_samples' = telemetry_samples
            /\ build_events' = build_events]_vars

\* C32: when the consumer that reads dispatchAttempt takes a message of the
\* dispatch queue whose body is not a DispatchMessage, one whose
\* dispatchAttempt is missing or below 1 included, the message is
\* acknowledged and nothing else happens: no request goes to the instance, no
\* attempt row is written, no delivery row changes, nothing is enqueued.
C32_MalformedBodyDropped ==
  [][\A m \in queue, o \in TriggerOutcomes, sendOk \in BOOLEAN :
       ( /\ m.queue = "dispatch"
         /\ ~m.valid \/ m.dispatchAttempt < 1
         /\ HandleQueue(m, o, sendOk, FALSE) ) =>
       ( /\ queue' = queue \ {m}
         /\ httpCalls' = httpCalls
         /\ delivery_attempts' = delivery_attempts
         /\ deliveries' = deliveries )]_vars

\* C33: delivery_attempts is append-only with one row per wire attempt: the
\* rows of a delivery never share an attempt_no, and every step in which the
\* consumer dispatches a valid message of an existing delivery appends
\* exactly one row for that delivery and leaves every other row as it was,
\* also when a store write fails after the attempt row was inserted.
C33_OneRowPerWireAttempt ==
  /\ [](\A d \in DOMAIN delivery_attempts :
          \A i, j \in 1..Len(delivery_attempts[d]) :
            i # j => delivery_attempts[d][i].attempt_no
                       # delivery_attempts[d][j].attempt_no)
  /\ [][\A m \in queue, o \in StoreFailOutcomes :
          LET before == IF m.deliveryId \in DOMAIN delivery_attempts
                        THEN delivery_attempts[m.deliveryId] ELSE <<>>
          IN ( /\ m.valid
               /\ m.queue = "dispatch"
               /\ Consumes(m, o) ) =>
             ( /\ m.deliveryId \in DOMAIN delivery_attempts'
               /\ Len(delivery_attempts'[m.deliveryId]) = Len(before) + 1
               /\ SubSeq(delivery_attempts'[m.deliveryId], 1, Len(before)) = before
               /\ \A d \in DOMAIN delivery_attempts \ {m.deliveryId} :
                    delivery_attempts'[d] = delivery_attempts[d] )]_vars

\* C34: no exception leaves handleQueue: whatever valid message of the
\* dispatch queue the consumer takes and whatever happens to the dispatch
\* (token signing fails, HTTP error, timeout, a store write fails),
\* dispatchToInstance returns a result to handleQueue instead of throwing.
C34_QueueHandlerNeverThrows ==
  \A m \in queue, o \in Outcomes \cup StoreFailOutcomes :
    (m.valid /\ m.queue = "dispatch") =>
      ~dispatchToInstance(m, AttemptNoOf(m), o).threw

\* C35: while an instance is due (active, with a site_url, its next_run_at
\* reached) and stays active with a site_url, its next_run_at moves forward
\* only when a delivery of the instance for that run (scheduled_for equal to
\* the next_run_at that is replaced) has been created; a successful sync
\* that arrives between the due time and the tick is no exception.
C35_DueRunIsNotSkipped ==
  [][\A s \in Sites :
       ( /\ IsDue(instances[s], clock)
         /\ instances'[s].status = "active"
         /\ instances'[s].site_url # "null"
         /\ instances'[s].next_run_at > instances[s].next_run_at ) =>
       \E d \in DOMAIN deliveries' :
         /\ deliveries'[d].instance_id = instances[s].instance_id
         /\ deliveries'[d].scheduled_for = instances[s].next_run_at]_vars

\* C36: the delay that scheduleRetryDispatch derives from the reserved
\* minute for the retry after attempt n is at least
\* backoff(n) = min(30 * 2^(n-1), 900) seconds, so the message of attempt
\* n + 1 is not visible to the consumer before the backoff has passed.
C36_RetryDelayAtLeastBackoff ==
  (probe.fn = "scheduleRetryDispatch" /\ probe.out # NULL) =>
    probe.out >= Min(30 * Pow2(probe.a - 1), 900)

\* C37: in every reachable state, the interleavings of a scheduler tick with
\* a deregister or with a sync that turns the instance to pending_url
\* included, an instance row whose status is not 'active' has next_run_at
\* null.
C37_InactiveHasNoNextRun ==
  \A s \in Sites :
    instances[s].status \in {"pending_url", "disabled"} =>
      instances[s].next_run_at = NULL

\* the reservations a table holds: total_count summed over its buckets
RECURSIVE TotalReserved(_, _)
TotalReserved(load, minutes) ==
  IF minutes = {} THEN 0
  ELSE LET m == CHOOSE x \in minutes : TRUE
       IN load[m].total_count + TotalReserved(load, minutes \ {m})

\* C38: every slot reservation stands for exactly one enqueued message: in
\* the worker whose scheduler reserves slots, whenever no tick is between its
\* reservation and its send, the reservations of the minute buckets are as
\* many as the dispatch messages the queue took (nothing has been consumed),
\* so a reservation whose enqueue failed does not go on using quota.
C38_ReservationsMatchMessages ==
  (build = "part_001" /\ tick.pc # "send") =>
    TotalReserved(dispatch_minute_load, DOMAIN dispatch_minute_load)
      = Cardinality({m \in queue : m.valid /\ m.queue = "dispatch"})

\* the messages of the dispatch queue that carry a delivery
PendingOf(messages, deliveryId) ==
  {m \in messages : m.valid /\ m.queue = "dispatch" /\ m.deliveryId = deliveryId}

C40_OneRowPinnedOnce ==
  /\ [][\A s \in Sites :
          instances[s].status # "none" =>
            /\ instances'[s].status # "none"
            /\ instances'[s].instance_id = instances[s].instance_id
            /\ instances'[s].site_pub_key = instances[s].site_pub_key]_vars
  /\ [][\A r \in 1..MaxSyncers :
          (syncs[r].pc = "write" /\ syncs'[r].pc = "done" /\ syncs'[r].created) =>
            /\ instances[syncs[r].input.siteId].status = "none"
            /\ instances'[syncs[r].input.siteId].instance_id = FreshInstanceId(r)
            /\ instances'[syncs[r].input.siteId].site_pub_key
                 = syncs[r].input.sitePubKey]_vars

\* both requests read "no instance"; the first created the row with its key,
\* the second, carrying another key, was refused
C40_Witness ==
  /\ syncs[1].pc = "done" /\ syncs[1].created
  /\ syncs[1].input.sitePubKey = "k1"
  /\ syncs[2].pc = "done" /\ ~syncs[2].created
  /\ syncs[2].existing.status = "none"
  /\ syncs[2].input.sitePubKey = "k2"
  /\ instances[1].instance_id = FreshInstanceId(1)
  /\ instances[1].site_pub_key = "k1"
  /\ response = ErrorResponse(500, "INTERNAL_ERROR")

====
